---------------------------- MODULE Spec2Model ----------------------------
(***************************************************************************)
(* A model of the IFJ25 compiler front end: the AVL symbol table of        *)
(* symtable.c and the recursive-descent parser / code generator of         *)
(* parser.c, which reads tokens produced by scanner.c.                     *)
(***************************************************************************)
EXTENDS Integers, Sequences, FiniteSets, TLC

(***************************************************************************)
(* Bounds of the model.                                                    *)
(***************************************************************************)
\* number of distinct keys (taken from KeyOrder) the
\* symbol-table specification inserts and deletes
NumKeys == 6
\* number of callables the writer of the source text puts in the class
MaxMembers == 2
\* number of statements the writer puts in one callable
MaxStmts == 2

(***************************************************************************)
(* Strings and their order.  strcmp is modelled over the finite universe   *)
(* of strings the model uses; KeyOrder lists it in ascending byte order.   *)
(***************************************************************************)
NULL == <<>>

\* a NULL char*
NULL_STR == "<NULL>"

KeyOrder ==
  << "<freed>", "a", "f", "f_0", "f_1", "f_2", "f_3", "f_4", "g_0", "g_1", "h", "h_0", "h_1",
     "h_2", "main", "main_0", "main_1", "main_2", "v", "x", "y" >>

RankOf ==
  [s \in {KeyOrder[i] : i \in 1..Len(KeyOrder)} |->
     CHOOSE i \in 1..Len(KeyOrder) : KeyOrder[i] = s]

Rank(s) == RankOf[s]

strcmp(a, b) == Rank(a) - Rank(b)

my_strdup(s) == s

(***************************************************************************)
(* Symbol records (SymbolData): a kind tag and the payload of that kind.   *)
(***************************************************************************)
symdata_create_var(type) ==
  [kind |-> "IFJ_SYMBOL_VAR", var |-> [type |-> type, value |-> "unset"], func |-> NULL]

symdata_create_func(kind, arity) ==
  [kind |-> kind, var |-> NULL, func |-> [arity |-> arity, params |-> <<>>]]

symdata_dup(data) ==
  IF data = NULL THEN NULL
  ELSE IF data.kind = "IFJ_SYMBOL_VAR"
       THEN [kind |-> data.kind,
             var  |-> [type |-> data.var.type, value |-> data.var.value],
             func |-> NULL]
       ELSE [kind |-> data.kind,
             var  |-> NULL,
             func |-> [arity  |-> data.func.arity,
                       params |-> [i \in 1..Len(data.func.params) |->
                                     my_strdup(data.func.params[i])]]]

(***************************************************************************)
(* The AVL tree.  A node is a record; an absent child is NULL.             *)
(***************************************************************************)
height(n) == IF n = NULL THEN 0 ELSE n.height

max(a, b) == IF a > b THEN a ELSE b

get_balance(n) == IF n = NULL THEN 0 ELSE height(n.left) - height(n.right)

\* a right rotation that hangs the two subtrees on the wrong sides
rotate_right_mirrored(y) ==
  LET x  == y.left
      y1 == [y EXCEPT !.left = x.right]
      y2 == [y1 EXCEPT !.height = max(height(y1.left), height(y1.right)) + 1]
      x1 == [x EXCEPT !.left = y2, !.right = x.left]
  IN  [x1 EXCEPT !.height = max(height(x1.left), height(x1.right)) + 1]

rotate_right(y) ==
  LET x  == y.left
      T2 == x.right
      y1 == [y EXCEPT !.left = T2]
      y2 == [y1 EXCEPT !.height = max(height(y1.left), height(y1.right)) + 1]
      x1 == [x EXCEPT !.right = y2]
  IN  [x1 EXCEPT !.height = max(height(x1.left), height(x1.right)) + 1]

rotate_left(y) ==
  LET x  == y.right
      T2 == x.left
      y1 == [y EXCEPT !.right = T2]
      y2 == [y1 EXCEPT !.height = max(height(y1.left), height(y1.right)) + 1]
      x1 == [x EXCEPT !.left = y2]
  IN  [x1 EXCEPT !.height = max(height(x1.left), height(x1.right)) + 1]

\* a balance_node that knows the single rotations only
balance_node_single(node) ==
  LET balance == get_balance(node)
  IN  IF balance > 1 THEN rotate_right(node)
      ELSE IF balance < -1 THEN rotate_left(node)
      ELSE node

balance_node(node) ==
  LET balance == get_balance(node)
  IN  IF balance > 1 /\ get_balance(node.left) >= 0
        THEN rotate_right(node)
      ELSE IF balance > 1 /\ get_balance(node.left) < 0
        THEN rotate_right([node EXCEPT !.left = rotate_left(node.left)])
      ELSE IF balance < -1 /\ get_balance(node.right) <= 0
        THEN rotate_left(node)
      ELSE IF balance < -1 /\ get_balance(node.right) > 0
        THEN rotate_left([node EXCEPT !.right = rotate_right(node.right)])
      ELSE node

\* height update followed by balance_node, as at the end of bst_insert,
\* bst_delete and bst_replace_by_rightmost
Rebalanced(t) ==
  IF t = NULL THEN NULL
  ELSE balance_node([t EXCEPT !.height = 1 + max(height(t.left), height(t.right))])

\* bst_insert: the value is the pointer the call returns, which is also the
\* new *tree (NULL when the allocation of a new node fails on an empty slot)
\* a bst_insert that keeps the record of a key already present
RECURSIVE bst_insert_keeps_record(_, _, _, _)
bst_insert_keeps_record(tree, key, data, alloc_fails) ==
  IF tree = NULL
    THEN IF alloc_fails THEN NULL
         ELSE [key |-> my_strdup(key), data |-> data,
               left |-> NULL, right |-> NULL, height |-> 1]
  ELSE IF strcmp(key, tree.key) < 0
    THEN Rebalanced([tree EXCEPT
           !.left = bst_insert_keeps_record(tree.left, key, data, alloc_fails)])
  ELSE IF strcmp(key, tree.key) > 0
    THEN Rebalanced([tree EXCEPT
           !.right = bst_insert_keeps_record(tree.right, key, data, alloc_fails)])
  ELSE tree

RECURSIVE bst_insert(_, _, _, _)
bst_insert(tree, key, data, alloc_fails) ==
  IF tree = NULL
    THEN IF alloc_fails THEN NULL
         ELSE [key |-> my_strdup(key), data |-> data,
               left |-> NULL, right |-> NULL, height |-> 1]
  ELSE IF strcmp(key, tree.key) < 0
    THEN Rebalanced([tree EXCEPT !.left = bst_insert(tree.left, key, data, alloc_fails)])
  ELSE IF strcmp(key, tree.key) > 0
    THEN Rebalanced([tree EXCEPT !.right = bst_insert(tree.right, key, data, alloc_fails)])
  ELSE [tree EXCEPT !.data = data]

RECURSIVE bst_find(_, _)
bst_find(tree, key) ==
  IF tree = NULL THEN [found |-> FALSE, data |-> NULL]
  ELSE IF strcmp(key, tree.key) < 0 THEN bst_find(tree.left, key)
  ELSE IF strcmp(key, tree.key) > 0 THEN bst_find(tree.right, key)
  ELSE [found |-> TRUE, data |-> tree.data]

\* a bst_replace_by_rightmost that moves the key but not the record
RECURSIVE replace_key_only(_)
replace_key_only(tree) ==
  IF tree = NULL
    THEN [replaced |-> FALSE, tree |-> NULL, key |-> NULL_STR, data |-> NULL]
  ELSE IF tree.right # NULL
    THEN LET r == replace_key_only(tree.right)
         IN  [r EXCEPT !.tree = Rebalanced([tree EXCEPT !.right = r.tree])]
  ELSE [replaced |-> TRUE,
        tree     |-> Rebalanced(tree.left),
        key      |-> my_strdup(tree.key),
        data     |-> NULL]

\* a bst_replace_by_rightmost that splices the rightmost node out and leaves
\* the heights and the balance of the nodes above it as they were
RECURSIVE replace_without_rebalancing(_)
replace_without_rebalancing(tree) ==
  IF tree = NULL
    THEN [replaced |-> FALSE, tree |-> NULL, key |-> NULL_STR, data |-> NULL]
  ELSE IF tree.right # NULL
    THEN LET r == replace_without_rebalancing(tree.right)
         IN  [r EXCEPT !.tree = [tree EXCEPT !.right = r.tree]]
  ELSE [replaced |-> TRUE,
        tree     |-> tree.left,
        key      |-> my_strdup(tree.key),
        data     |-> symdata_dup(tree.data)]

\* bst_replace_by_rightmost(target, &subtree): the new subtree and the key and
\* record written into target
RECURSIVE bst_replace_by_rightmost(_)
bst_replace_by_rightmost(tree) ==
  IF tree = NULL
    THEN [replaced |-> FALSE, tree |-> NULL, key |-> NULL_STR, data |-> NULL]
  ELSE IF tree.right # NULL
    THEN LET r == bst_replace_by_rightmost(tree.right)
         IN  [r EXCEPT !.tree = Rebalanced([tree EXCEPT !.right = r.tree])]
  ELSE [replaced |-> TRUE,
        tree     |-> Rebalanced(tree.left),
        key      |-> my_strdup(tree.key),
        data     |-> symdata_dup(tree.data)]

RECURSIVE bst_delete(_, _)
bst_delete(tree, key) ==
  IF tree = NULL THEN [deleted |-> FALSE, tree |-> tree]
  ELSE IF strcmp(key, tree.key) < 0
    THEN LET r == bst_delete(tree.left, key)
         IN  IF ~r.deleted THEN [deleted |-> FALSE, tree |-> tree]
             ELSE [deleted |-> TRUE, tree |-> Rebalanced([tree EXCEPT !.left = r.tree])]
  ELSE IF strcmp(key, tree.key) > 0
    THEN LET r == bst_delete(tree.right, key)
         IN  IF ~r.deleted THEN [deleted |-> FALSE, tree |-> tree]
             ELSE [deleted |-> TRUE, tree |-> Rebalanced([tree EXCEPT !.right = r.tree])]
  ELSE IF tree.left = NULL /\ tree.right = NULL
    THEN [deleted |-> TRUE, tree |-> NULL]
  ELSE IF tree.left = NULL
    THEN [deleted |-> TRUE, tree |-> Rebalanced(tree.right)]
  ELSE IF tree.right = NULL
    THEN [deleted |-> TRUE, tree |-> Rebalanced(tree.left)]
  ELSE LET r == bst_replace_by_rightmost(tree.left)
       IN  IF ~r.replaced THEN [deleted |-> FALSE, tree |-> tree]
           ELSE [deleted |-> TRUE,
                 tree |-> Rebalanced([tree EXCEPT !.key = r.key, !.data = r.data,
                                                  !.left = r.tree])]

\* A table is NULL (no table) or a record holding the root.
symtable_init == [root |-> NULL]

symtable_insert(table, key, data, alloc_fails) ==
  IF table = NULL THEN [ret |-> FALSE, table |-> table]
  ELSE LET t == bst_insert(table.root, key, data, alloc_fails)
       IN  [ret |-> t # NULL, table |-> [root |-> t]]

symtable_find(table, key) ==
  IF table = NULL THEN [found |-> FALSE, data |-> NULL]
  ELSE IF table.root = NULL THEN [found |-> FALSE, data |-> NULL]
  ELSE bst_find(table.root, key)

\* a symtable_delete that reports a deletion whenever the table is not empty
symtable_delete_reports_true(table, key) ==
  IF table = NULL THEN [ret |-> FALSE, table |-> table]
  ELSE IF table.root = NULL THEN [ret |-> FALSE, table |-> table]
  ELSE [ret |-> TRUE, table |-> [root |-> bst_delete(table.root, key).tree]]

symtable_delete(table, key) ==
  IF table = NULL THEN [ret |-> FALSE, table |-> table]
  ELSE IF table.root = NULL THEN [ret |-> FALSE, table |-> table]
  ELSE LET r == bst_delete(table.root, key)
       IN  [ret |-> r.deleted, table |-> [root |-> r.tree]]

(***************************************************************************)
(* The allocations of the table.  A number of blocks of each kind: the     *)
(* SymTable, a BSTNode, the copy of a key, a SymbolData (the record        *)
(* struct), its VarData or FuncData (the payload), a Param or its name.    *)
(***************************************************************************)
BlockKinds == {"table", "node", "key", "record", "payload", "param"}

NoBlocks == [b \in BlockKinds |-> 0]

Blocks(kind, n) == [b \in BlockKinds |-> IF b = kind THEN n ELSE 0]

Sum(x, y) == [b \in BlockKinds |-> x[b] + y[b]]

\* the blocks symdata_create_var, symdata_create_func and symdata_dup
\* allocate for a record
RecordBlocks(data) ==
  IF data = NULL THEN NoBlocks
  ELSE Sum(Blocks("record", 1),
           IF data.kind = "IFJ_SYMBOL_VAR"
             THEN IF data.var = NULL THEN NoBlocks ELSE Blocks("payload", 1)
             ELSE IF data.func = NULL THEN NoBlocks
                  ELSE Sum(Blocks("payload", 1),
                           Blocks("param", 2 * Len(data.func.params))))

\* the blocks symdata_free frees: the payload and the parameter list
symdata_free(data) ==
  IF data = NULL THEN NoBlocks
  ELSE IF data.kind = "IFJ_SYMBOL_VAR"
    THEN IF data.var = NULL THEN NoBlocks ELSE Blocks("payload", 1)
  ELSE IF data.func = NULL THEN NoBlocks
  ELSE Sum(Blocks("param", 2 * Len(data.func.params)), Blocks("payload", 1))

\* the blocks bst_free frees
RECURSIVE bst_free(_)
bst_free(tree) ==
  IF tree = NULL THEN NoBlocks
  ELSE Sum(Sum(bst_free(tree.left), bst_free(tree.right)),
           Sum(symdata_free(tree.data), Sum(Blocks("key", 1), Blocks("node", 1))))

\* the blocks symtable_free frees
symtable_free(table) ==
  IF table = NULL THEN NoBlocks
  ELSE Sum(bst_free(table.root), Blocks("table", 1))

\* the blocks that were allocated for the nodes of a tree and their records
RECURSIVE TreeBlocks(_)
TreeBlocks(tree) ==
  IF tree = NULL THEN NoBlocks
  ELSE Sum(Sum(TreeBlocks(tree.left), TreeBlocks(tree.right)),
           Sum(RecordBlocks(tree.data), Sum(Blocks("key", 1), Blocks("node", 1))))

\* the blocks that were allocated for a table and its records
TableBlocks(table) ==
  IF table = NULL THEN NoBlocks
  ELSE Sum(TreeBlocks(table.root), Blocks("table", 1))

\* what symtable_insert allocates and frees: a node and the copy of the key
\* for a new key, the old record through symdata_free for a key that is there
insert_heap(table, key, alloc_fails) ==
  LET old == symtable_find(table, key)
  IN  IF old.found
        THEN [malloc |-> NoBlocks, free |-> symdata_free(old.data)]
      ELSE IF alloc_fails
        THEN [malloc |-> NoBlocks, free |-> NoBlocks]
      ELSE [malloc |-> Sum(Blocks("node", 1), Blocks("key", 1)), free |-> NoBlocks]

\* what bst_delete allocates and frees
RECURSIVE delete_heap(_, _)
delete_heap(tree, key) ==
  IF tree = NULL THEN [malloc |-> NoBlocks, free |-> NoBlocks]
  ELSE IF strcmp(key, tree.key) < 0 THEN delete_heap(tree.left, key)
  ELSE IF strcmp(key, tree.key) > 0 THEN delete_heap(tree.right, key)
  ELSE IF tree.left # NULL /\ tree.right # NULL
    \* bst_replace_by_rightmost: the key and the payload of the target and
    \* of the rightmost node are freed, copies of the rightmost are made
    THEN LET r == bst_replace_by_rightmost(tree.left)
         IN  [malloc |-> Sum(Blocks("key", 1), RecordBlocks(r.data)),
              free   |-> Sum(Sum(Blocks("key", 2), Blocks("node", 1)),
                             Sum(symdata_free(tree.data), symdata_free(r.data)))]
  ELSE [malloc |-> NoBlocks,
        free   |-> Sum(symdata_free(tree.data),
                       Sum(Blocks("key", 1), Blocks("node", 1)))]

(***************************************************************************)
(* Error codes (parser.h).                                                 *)
(***************************************************************************)
SUCCESS == 0
LEXICAL_ERROR == 1
SYNTAX_ERROR == 2
SEMANTIC_UNDEFINED == 3
SEMANTIC_REDEFINITION == 4
SEMANTIC_ARG_COUNT == 5
SEMANTIC_TYPE_COMPAT == 6
SEMANTIC_OTHER == 10
INTERNAL_ERROR == 99

(***************************************************************************)
(* Tokens.  The source text reaches the parser as the tokens the scanner   *)
(* makes of it; a token is its type and its payload text (NULL for         *)
(* punctuation, end of line and end of file).                              *)
(***************************************************************************)
Tok(type) == [type |-> type, value |-> NULL_STR]
TokV(type, value) == [type |-> type, value |-> value]

Ident(name) == TokV("TOKEN_IDENTIFIER", name)
GlobalIdent(name) == TokV("TOKEN_GLOBAL_IDENTIFIER", name)
IntLit(text) == TokV("TOKEN_INT_LITERAL", text)
FloatLit(text) == TokV("TOKEN_FLOAT_LITERAL", text)
StrLit(text) == TokV("TOKEN_STRING_LITERAL", text)
ErrTok(text) == TokV("TOKEN_ERROR", text)
\* keywords keep their text as payload (read_identifier)
KwImport == TokV("TOKEN_IMPORT", "import")
KwFor == TokV("TOKEN_FOR", "for")
KwIfj == TokV("TOKEN_IFJ_NAMESPACE", "Ifj")
KwClass == TokV("TOKEN_CLASS", "class")
KwStatic == TokV("TOKEN_STATIC", "static")
KwVar == TokV("TOKEN_VAR", "var")
KwIf == TokV("TOKEN_IF", "if")
KwElse == TokV("TOKEN_ELSE", "else")
KwWhile == TokV("TOKEN_WHILE", "while")
KwReturn == TokV("TOKEN_RETURN", "return")
KwNull == TokV("TOKEN_NULL", "null")
KwIs == TokV("TOKEN_IS", "is")
KwNum == TokV("TOKEN_NUM", "Num")
EOL == Tok("TOKEN_EOL")
LParen == Tok("TOKEN_LEFT_PAREN")
Dot == Tok("TOKEN_DOT")
RParen == Tok("TOKEN_RIGHT_PAREN")
LBrace == Tok("TOKEN_LEFT_BRACE")
RBrace == Tok("TOKEN_RIGHT_BRACE")
Comma == Tok("TOKEN_COMMA")
Assign == Tok("TOKEN_ASSIGN")
Plus == Tok("TOKEN_PLUS")
Minus == Tok("TOKEN_MINUS")
Star == Tok("TOKEN_MULTIPLY")
Slash == Tok("TOKEN_DIVIDE")
Less == Tok("TOKEN_LESS")

IS_REL_OPERATOR(token_type) ==
  token_type \in {"TOKEN_EQUAL", "TOKEN_NOT_EQUAL", "TOKEN_LESS", "TOKEN_GREATER",
                  "TOKEN_LESS_EQUAL", "TOKEN_GREATER_EQUAL"}

IS_TYPE_TOKEN(token_type) ==
  token_type \in {"TOKEN_NUM", "TOKEN_STRING_TYPE", "TOKEN_NULL_TYPE"}

(***************************************************************************)
(* State.                                                                  *)
(***************************************************************************)
VARIABLES
  \* the symbol table driven directly through its interface (TableSpec)
  tab,        \* the table
  ref,        \* key -> record last inserted and not deleted since (NULL: none)
  tab_call,   \* the last symtable call: its name, key and record
  tab_ret,    \* the value that call returned
  tab_heap,   \* the blocks that call allocated and the blocks it freed
  \* struct Parser (parser.h)
  current_token,
  global_table,
  local_table,
  had_error,
  error_code,
  label_counter,
  temp_var_counter,
  current_function,
  in_function,
  function_param_count,
  \* the streams
  out,        \* the lines written to parser->output
  input,      \* the tokens of the source text not yet read by the scanner
  closed,     \* no more source text will come (end of file follows input)
  \* the heap of token payloads and of the strings that alias them
  heap,       \* the ids of the live allocations
  next_id,    \* the id the next allocation gets
  corrupt,    \* free() was called on a freed block and the process went on
  diag,       \* the diagnostics written to stderr: code and message
  \* control
  stack,      \* the active calls of the parser, innermost last
  status,     \* "running", "exited" (main returned) or "aborted"
  result,     \* the value parse_program returned, main's exit status
  idle,       \* the steps the compiler has taken since it last read a token,
              \* and the depth of the call stack when it read it
  \* the writer of the source text
  scen,       \* the family of programs the source text is drawn from
  gen,        \* what has been written so far
  \* the generated code run on the target stack machine (MachineSpec)
  machine,
  \* struct Scanner over a source text (ScannerSpec)
  scanner

tvars == <<tab, ref, tab_call, tab_ret, tab_heap>>

pvars == <<current_token, global_table, local_table, had_error, error_code,
           label_counter, temp_var_counter, current_function, in_function,
           function_param_count, out, input, closed, heap, next_id,
           corrupt, diag, stack, status, result, idle>>

gvars == <<scen, gen>>

mvars == <<machine>>

svars == <<scanner>>

vars == <<tvars, pvars, gvars, mvars, svars>>

(***************************************************************************)
(* The symbol table through its interface: symtable_insert and             *)
(* symtable_delete called with any key and record, allocation succeeding.  *)
(***************************************************************************)
TableKeys == {KeyOrder[i] : i \in 2..(NumKeys + 1)}

TableRecords ==
  { symdata_create_var("IFJ_TYPE_NULL"), symdata_create_func("IFJ_SYMBOL_FUNC", 1) }

\* the parser is not running in TableSpec
ParserIdle ==
  /\ current_token = NULL /\ global_table = NULL /\ local_table = NULL
  /\ had_error = FALSE /\ error_code = SUCCESS
  /\ label_counter = 0 /\ temp_var_counter = 0
  /\ current_function = NULL_STR /\ in_function = FALSE /\ function_param_count = 0
  /\ out = <<>> /\ input = <<>> /\ closed = TRUE /\ heap = {} /\ next_id = 1
  /\ corrupt = FALSE /\ diag = <<>> /\ idle = [steps |-> 0, depth |-> 0]
  /\ stack = <<>> /\ status = "idle" /\ result = 0
  /\ scen = "none" /\ gen = NULL

TableInit ==
  /\ tab = symtable_init
  /\ ref = [k \in TableKeys |-> NULL]
  /\ tab_call = [op |-> "init", key |-> NULL_STR, data |-> NULL]
  /\ tab_ret = TRUE
  /\ tab_heap = [malloc |-> Blocks("table", 1), free |-> NoBlocks]
  /\ ParserIdle
  /\ machine = NULL /\ scanner = NULL

TableInsert ==
  \E k \in TableKeys, d \in TableRecords :
    LET r == symtable_insert(tab, k, d, FALSE)
    IN  /\ tab' = r.table
        /\ tab_ret' = r.ret
        /\ tab_heap' = insert_heap(tab, k, FALSE)
        /\ tab_call' = [op |-> "insert", key |-> k, data |-> d]
        /\ ref' = [ref EXCEPT ![k] = d]
        /\ UNCHANGED <<pvars, gvars, mvars, svars>>

TableDelete ==
  \E k \in TableKeys :
    LET r == symtable_delete(tab, k)
    IN  /\ tab' = r.table
        /\ tab_ret' = r.ret
        /\ tab_heap' = delete_heap(tab.root, k)
        /\ tab_call' = [op |-> "delete", key |-> k, data |-> NULL]
        /\ ref' = [ref EXCEPT ![k] = NULL]
        /\ UNCHANGED <<pvars, gvars, mvars, svars>>

\* symtable_insert while malloc has no memory left: an allocation the call
\* attempts fails.  A key that is in the table is overwritten without any
\* allocation
TableInsertNoMemory ==
  \E k \in TableKeys, d \in TableRecords :
    LET r == symtable_insert(tab, k, d, TRUE)
    IN  /\ tab' = r.table
        /\ tab_ret' = r.ret
        /\ tab_heap' = insert_heap(tab, k, TRUE)
        /\ tab_call' = [op |-> "insert without memory", key |-> k, data |-> d]
        /\ ref' = IF ref[k] = NULL THEN ref ELSE [ref EXCEPT ![k] = d]
        /\ UNCHANGED <<pvars, gvars, mvars, svars>>

\* symtable_free of the table, then symtable_init of a new one, as the
\* parser does with its local table at the head of every callable
TableRenew ==
  /\ tab' = symtable_init
  /\ tab_ret' = TRUE
  /\ tab_call' = [op |-> "free", key |-> NULL_STR, data |-> NULL]
  /\ tab_heap' = [malloc |-> Blocks("table", 1), free |-> symtable_free(tab)]
  /\ ref' = [k \in TableKeys |-> NULL]
  /\ UNCHANGED <<pvars, gvars, mvars, svars>>

TableNext == TableInsert \/ TableInsertNoMemory \/ TableDelete \/ TableRenew

TableSpec == TableInit /\ [][TableNext]_vars

(***************************************************************************)
(* The parser.  Its operations are written as functions of a record s that *)
(* holds the state variables plus s.ub, the outcome chosen for undefined   *)
(* behaviour met during the step: what a read through a pointer to a freed *)
(* payload yields, and what the allocator does once it is misused.         *)
(***************************************************************************)
S(ub) ==
  [ cur |-> current_token, global_table |-> global_table,
    local_table |-> local_table, had_error |-> had_error,
    error_code |-> error_code, label_counter |-> label_counter,
    temp_var_counter |-> temp_var_counter,
    current_function |-> current_function, in_function |-> in_function,
    function_param_count |-> function_param_count,
    out |-> out, input |-> input, heap |-> heap, next_id |-> next_id,
    corrupt |-> corrupt, diag |-> diag,
    stack |-> stack, status |-> status, result |-> result, ub |-> ub ]

Commit(s) ==
  /\ current_token' = s.cur
  /\ global_table' = s.global_table
  /\ local_table' = s.local_table
  /\ had_error' = s.had_error
  /\ error_code' = s.error_code
  /\ label_counter' = s.label_counter
  /\ temp_var_counter' = s.temp_var_counter
  /\ current_function' = s.current_function
  /\ in_function' = s.in_function
  /\ function_param_count' = s.function_param_count
  /\ out' = s.out
  /\ input' = s.input
  /\ heap' = s.heap
  /\ next_id' = s.next_id
  /\ corrupt' = s.corrupt
  /\ diag' = s.diag
  /\ stack' = IF s.status = "aborted" THEN <<>> ELSE s.stack
  /\ status' = s.status
  /\ result' = s.result
  /\ idle' = IF Len(s.input) < Len(input)
               THEN [steps |-> 0, depth |-> Len(s.stack)]
               ELSE [idle EXCEPT !.steps = @ + 1]
  /\ UNCHANGED <<closed, tvars, gvars, mvars, svars>>

Running(s) == s.status = "running"

\* ---- the heap (malloc and free of the C library) ----
Dangling(s, id) == id # 0 /\ id \notin s.heap

\* any call of malloc or free: once a double free has damaged the heap the
\* allocator either goes on or detects the damage and aborts the process
heap_call(s) ==
  IF Running(s) /\ s.corrupt /\ s.ub.free = "abort"
    THEN [s EXCEPT !.status = "aborted"]
    ELSE s

\* free(p) of block id: freeing a block already freed is undefined behaviour;
\* the allocator aborts at once or goes on with a damaged heap
Free(s, id) ==
  IF ~Running(s) \/ id = 0 THEN s
  ELSE IF id \in s.heap THEN [heap_call(s) EXCEPT !.heap = @ \ {id}]
  ELSE IF s.ub.free = "abort" THEN [s EXCEPT !.status = "aborted"]
  ELSE [s EXCEPT !.corrupt = TRUE]

\* the text read through current_token.value: when the payload was freed,
\* either the old bytes are still there or the allocator has overwritten them
ReadValue(s) ==
  IF Dangling(s, s.cur.id) /\ s.ub.read = "overwritten" THEN "<freed>"
  ELSE s.cur.value

\* ---- the call stack ----
Frame(fn, pc) ==
  [fn |-> fn, pc |-> pc, name |-> NULL_STR, name2 |-> NULL_STR, n |-> 0,
   is_global |-> FALSE, op |-> NULL_STR, l1 |-> NULL_STR, l2 |-> NULL_STR,
   saved |-> NULL, ptr |-> 0]

Top(s) == s.stack[Len(s.stack)]

SetTop(s, f) == [s EXCEPT !.stack[Len(s.stack)] = f]

Goto(s, pc) == [s EXCEPT !.stack[Len(s.stack)].pc = pc]

Return(s) == [s EXCEPT !.stack = SubSeq(@, 1, Len(@) - 1)]

\* call fn; the caller resumes at line retpc
Call(s, fn, pc, retpc) == [Goto(s, retpc) EXCEPT !.stack = Append(@, Frame(fn, pc))]

CallWith(s, fn, pc, name, retpc) ==
  [Goto(s, retpc) EXCEPT !.stack = Append(@, [Frame(fn, pc) EXCEPT !.name = name])]

\* ---- scanner.c, seen from the parser ----
create_token(s, t) ==
  IF t.value = NULL_STR
    THEN [s EXCEPT !.cur = [type |-> t.type, value |-> NULL_STR, id |-> 0]]
    ELSE [heap_call(s) EXCEPT
            !.cur = [type |-> t.type, value |-> t.value, id |-> s.next_id],
            !.heap = @ \cup {s.next_id},
            !.next_id = @ + 1]

get_next_token(s) ==
  IF ~Running(s) THEN s
  ELSE IF s.input = <<>> THEN create_token(s, Tok("TOKEN_EOF"))
  ELSE create_token([s EXCEPT !.input = Tail(@)], Head(s.input))

token_free(s) ==
  IF s.cur.id # 0
    THEN [Free(s, s.cur.id) EXCEPT !.cur.value = NULL_STR, !.cur.id = 0]
    ELSE s

\* ---- parser.c: token handling ----
next_token(s) ==
  get_next_token(IF s.cur.id # 0 THEN token_free(s) ELSE s)

accept(s, type) == s.cur.type = type

\* an error() whose latch takes the code of every call
error_last_wins(s, code, message) ==
  IF ~Running(s) THEN s
  ELSE [s EXCEPT !.had_error = TRUE, !.error_code = code,
                 !.diag = Append(@, [code |-> code, message |-> message])]

\* error(): the latch takes the first code; every call writes a diagnostic
error(s, code, message) ==
  IF ~Running(s) THEN s
  ELSE LET s1 == IF ~s.had_error
                   THEN [s EXCEPT !.had_error = TRUE, !.error_code = code]
                   ELSE s
       IN  [s1 EXCEPT !.diag = Append(@, [code |-> code, message |-> message])]

\* the message of expect(): "Expected %s, got %s"
ExpectMessage(type, got) ==
  "Expected "
  \o (CASE type = "TOKEN_IDENTIFIER"  -> "identifier"
        [] type = "TOKEN_LEFT_PAREN"  -> "("
        [] type = "TOKEN_RIGHT_PAREN" -> ")"
        [] type = "TOKEN_LEFT_BRACE"  -> "{"
        [] type = "TOKEN_RIGHT_BRACE" -> "}"
        [] type = "TOKEN_ASSIGN"      -> "="
        [] type = "TOKEN_EOL"         -> "end of line"
        [] OTHER                      -> "specific token")
  \o ", got "
  \o (CASE got = "TOKEN_IDENTIFIER" -> "identifier"
        [] got = "TOKEN_EOF"        -> "end of file"
        [] got = "TOKEN_EOL"        -> "end of line"
        [] OTHER                    -> "other token")

\* expect(): the state after the call; it returns accept(s, type)
expect(s, type) ==
  IF accept(s, type) THEN s
  ELSE error(s, SYNTAX_ERROR, ExpectMessage(type, s.cur.type))

emit(s, line) == IF Running(s) THEN [s EXCEPT !.out = Append(@, line)] ELSE s

RECURSIVE emit_all(_, _)
emit_all(s, lines) ==
  IF lines = <<>> THEN s ELSE emit_all(emit(s, Head(lines)), Tail(lines))

\* snprintf(key, sizeof(key), "%s_%d", name, arity)
MakeKey(name, arity) == name \o "_" \o ToString(arity)

\* a generate_label that does not count: every label is label_<n> of the
\* same n
generate_label_reused(s) ==
  [label |-> "label_" \o ToString(s.label_counter),
   s     |-> heap_call(s)]

generate_label(s) ==
  [label |-> "label_" \o ToString(s.label_counter),
   s     |-> [heap_call(s) EXCEPT !.label_counter = @ + 1]]

generate_temp_var(s) == [heap_call(s) EXCEPT !.temp_var_counter = @ + 1]

generate_prolog(s) == emit_all(s, <<"CREATEFRAME", "PUSHFRAME">>)

generate_epilog(s) ==
  IF ~symtable_find(s.global_table, "main_0").found
    THEN error(s, SEMANTIC_UNDEFINED, "main function not defined")
    ELSE emit_all(s, <<"CALL $main", "EXIT int@0">>)

RECURSIVE ParamPops(_)
\* a prolog that pops into param0 first and param<n-1> last
RECURSIVE ParamPops_ascending(_)
ParamPops_ascending(i) ==
  IF i < 0 THEN <<>>
  ELSE ParamPops_ascending(i - 1)
       \o << "DEFVAR LF@param" \o ToString(i), "POPS LF@param" \o ToString(i) >>

ParamPops(i) ==
  IF i < 0 THEN <<>>
  ELSE << "DEFVAR LF@param" \o ToString(i), "POPS LF@param" \o ToString(i) >>
       \o ParamPops(i - 1)

generate_function_prolog(s, name, param_count) ==
  emit_all(s, << "LABEL $" \o name, "CREATEFRAME", "PUSHFRAME" >>
              \o ParamPops(param_count - 1))

generate_function_epilog(s) ==
  emit_all(s, (IF s.current_function # NULL_STR /\ s.current_function = "main"
                 THEN <<"PUSHS nil@nil">> ELSE <<>>)
              \o <<"POPFRAME", "RETURN">>)

generate_var_declaration(s, name, is_global) ==
  IF is_global
    THEN emit_all(s, <<"DEFVAR GF@" \o name, "MOVE GF@" \o name \o " nil@nil">>)
    ELSE emit_all(s, <<"DEFVAR LF@" \o name, "MOVE LF@" \o name \o " nil@nil">>)

generate_assignment(s, name, is_global) ==
  IF is_global THEN emit(s, "POPS GF@" \o name) ELSE emit(s, "POPS LF@" \o name)

generate_function_call(s, func_name, arg_count, is_builtin) ==
  IF is_builtin
    THEN emit(s, "# Call to built-in function " \o func_name)
    ELSE emit(s, "CALL $" \o func_name)

generate_binary_op(s, op) ==
  LET s1 == generate_temp_var(s)
  IN  CASE op = "TOKEN_PLUS"     -> emit(s1, "ADDS")
        [] op = "TOKEN_MINUS"    -> emit(s1, "SUBS")
        [] op = "TOKEN_MULTIPLY" -> emit(s1, "MULS")
        [] op = "TOKEN_DIVIDE"   -> emit(s1, "DIVS")
        [] OTHER -> error(s1, INTERNAL_ERROR, "Unknown binary operator")

generate_relational_op(s, op) ==
  LET s1 == generate_temp_var(s)
  IN  CASE op = "TOKEN_EQUAL"     -> emit(s1, "EQS")
        [] op = "TOKEN_NOT_EQUAL" -> emit_all(s1, <<"EQS", "NOTS">>)
        [] op = "TOKEN_LESS"      -> emit(s1, "LTS")
        [] op = "TOKEN_GREATER"   ->
             emit_all(s1, <<"POPS LF@temp2", "POPS LF@temp1", "PUSHS LF@temp2",
                            "PUSHS LF@temp1", "LTS">>)
        [] op = "TOKEN_LESS_EQUAL" ->
             emit_all(s1, <<"POPS LF@temp2", "POPS LF@temp1", "PUSHS LF@temp1",
                            "PUSHS LF@temp2", "LTS", "NOTS">>)
        [] op = "TOKEN_GREATER_EQUAL" -> emit_all(s1, <<"LTS", "NOTS">>)
        [] OTHER -> error(s1, INTERNAL_ERROR, "Unknown relational operator")

generate_is_op(s, type_token) ==
  LET s1 == generate_temp_var(s)
      s2 == emit_all(s1, <<"POPS LF@value", "TYPE LF@type LF@value">>)
      tail(t) == emit_all(s2, <<"PUSHS string@" \o t, "PUSHS LF@type", "EQS">>)
  IN  CASE type_token = "TOKEN_NUM"         -> tail("float")
        [] type_token = "TOKEN_STRING_TYPE" -> tail("string")
        [] type_token = "TOKEN_NULL_TYPE"   -> tail("nil")
        [] OTHER -> error(s2, SYNTAX_ERROR, "Invalid type in is expression")

(***************************************************************************)
(* The parsing functions.  Each is a function of s whose top frame is a    *)
(* call of it; the frame's pc is the line of parser.c at which the call    *)
(* goes on.  One application runs the call up to its next call, its return *)
(* or the statement after its next next_token().                           *)
(***************************************************************************)
\* if (!expect(parser, type)) return; next_token(parser); then go on at pc
ExpectNext(s, type, pc) ==
  IF accept(s, type) THEN Goto(next_token(s), pc) ELSE Return(expect(s, type))

\* the same at the end of a function
ExpectNextReturn(s, type) ==
  IF accept(s, type) THEN Return(next_token(s)) ELSE Return(expect(s, type))

parse_program(s) ==
  LET pc == Top(s).pc
      leave(t) == Return([t EXCEPT !.result = t.error_code])
  IN  CASE pc = 182 ->
             Call(generate_prolog(emit(s, ".IFJcode25")), "parse_prolog", 231, 187)
        [] pc = 187 ->
             IF s.had_error THEN leave(s) ELSE Call(s, "parse_class", 265, 191)
        [] pc = 191 ->
             IF s.had_error THEN leave(s)
             ELSE Call(s, "parse_function_definitions", 293, 195)
        [] pc = 195 ->
             IF s.had_error THEN leave(s) ELSE leave(generate_epilog(s))

parse_prolog(s) ==
  LET pc == Top(s).pc
  IN  CASE pc = 231 ->
             IF accept(s, "TOKEN_IMPORT") THEN Goto(next_token(s), 238)
             ELSE Return(error(expect(s, "TOKEN_IMPORT"), SYNTAX_ERROR,
                               "Missing import statement"))
        [] pc = 238 ->
             IF ~accept(s, "TOKEN_STRING_LITERAL")
               THEN Return(expect(s, "TOKEN_STRING_LITERAL"))
             ELSE IF s.cur.value = NULL_STR \/ s.cur.value # "ifj25"
               THEN Return(error(s, SYNTAX_ERROR, "Expected string \"ifj25\" in import"))
             ELSE Goto(next_token(s), 248)
        [] pc = 248 -> ExpectNext(s, "TOKEN_FOR", 252)
        [] pc = 252 -> ExpectNext(s, "TOKEN_IFJ_NAMESPACE", 256)
        [] pc = 256 -> ExpectNextReturn(s, "TOKEN_EOL")

parse_class(s) ==
  LET pc == Top(s).pc
  IN  CASE pc = 265 ->
             IF accept(s, "TOKEN_CLASS") THEN Goto(next_token(s), 272)
             ELSE Return(error(expect(s, "TOKEN_CLASS"), SYNTAX_ERROR,
                               "Missing class definition"))
        [] pc = 272 ->
             IF ~accept(s, "TOKEN_IDENTIFIER")
               THEN Return(expect(s, "TOKEN_IDENTIFIER"))
             ELSE IF s.cur.value = NULL_STR \/ s.cur.value # "Program"
               THEN Return(error(s, SYNTAX_ERROR, "Expected 'Program' as class name"))
             ELSE Goto(next_token(s), 281)
        [] pc = 281 -> ExpectNext(s, "TOKEN_LEFT_BRACE", 285)
        [] pc = 285 -> ExpectNextReturn(s, "TOKEN_EOL")

\* a parse_function_definitions whose loop goes round on a token that
\* starts no member, without reading it and without an error
parse_function_definitions_spins(s) ==
  IF ~accept(s, "TOKEN_RIGHT_BRACE") /\ ~s.had_error
    THEN IF accept(s, "TOKEN_STATIC") THEN Call(s, "parse_function", 313, 293)
         ELSE IF accept(s, "TOKEN_EOL") THEN Goto(next_token(s), 293)
         ELSE Goto(s, 293)
    ELSE ExpectNextReturn(s, "TOKEN_RIGHT_BRACE")

parse_function_definitions(s) ==
  IF ~accept(s, "TOKEN_RIGHT_BRACE") /\ ~s.had_error
    THEN IF accept(s, "TOKEN_STATIC") THEN Call(s, "parse_function", 313, 293)
         ELSE IF accept(s, "TOKEN_EOL") THEN Goto(next_token(s), 293)
         ELSE ExpectNextReturn(
                error(s, SYNTAX_ERROR, "Expected function definition or end of class"),
                "TOKEN_RIGHT_BRACE")
    ELSE ExpectNextReturn(s, "TOKEN_RIGHT_BRACE")

\* a declaration that does not look the key up before it inserts
DeclareCallable_unchecked(s, kind, name, arity) ==
  LET s0  == heap_call(s)
      ins == symtable_insert(s0.global_table, MakeKey(name, arity),
                             symdata_create_func(kind, arity), FALSE)
      s1  == generate_function_prolog([s0 EXCEPT !.global_table = ins.table],
                                      name, arity)
  IN  [entered |-> TRUE,
       s |-> [s1 EXCEPT !.current_function = name,
                        !.in_function = TRUE,
                        !.function_param_count = arity,
                        !.local_table = symtable_init]]

\* a declaration that opens the callable but does not enter its key in the
\* global table
DeclareCallable_not_entered(s, kind, name, arity) ==
  LET s0 == heap_call(s)
  IN  IF symtable_find(s0.global_table, MakeKey(name, arity)).found
        THEN [entered |-> FALSE,
              s |-> error(s0, SEMANTIC_REDEFINITION, "Function redefined")]
        ELSE LET s1 == generate_function_prolog(s0, name, arity)
             IN  [entered |-> TRUE,
                  s |-> [s1 EXCEPT !.current_function = name,
                                   !.in_function = TRUE,
                                   !.function_param_count = arity,
                                   !.local_table = symtable_init]]

\* a declaration that goes on with the local table of the callable before
DeclareCallable_keeps_locals(s, kind, name, arity) ==
  LET s0 == heap_call(s)
  IN  IF symtable_find(s0.global_table, MakeKey(name, arity)).found
        THEN [entered |-> FALSE,
              s |-> error(s0, SEMANTIC_REDEFINITION, "Function redefined")]
        ELSE LET ins == symtable_insert(s0.global_table, MakeKey(name, arity),
                                        symdata_create_func(kind, arity), FALSE)
                 s1  == generate_function_prolog(
                          [s0 EXCEPT !.global_table = ins.table], name, arity)
             IN  [entered |-> TRUE,
                  s |-> [s1 EXCEPT !.current_function = name,
                                   !.in_function = TRUE,
                                   !.function_param_count = arity,
                                   !.local_table = IF @ = NULL THEN symtable_init
                                                   ELSE @]]

\* the head of a callable is accepted: enter it in the global table under
\* key, open its frame and its local table (parse_function 376-416,
\* parse_getter 1137-1174, parse_setter 1218-1258); the value is the state
\* and whether the callable was entered
DeclareCallable(s, kind, name, arity) ==
  LET key  == MakeKey(name, arity)
      data == symdata_create_func(kind, arity)
      s0   == heap_call(s)
  IN  IF symtable_find(s0.global_table, key).found
        THEN [entered |-> FALSE,
              s |-> error(s0, SEMANTIC_REDEFINITION,
                          CASE kind = "IFJ_SYMBOL_GETTER" -> "Getter redefined"
                            [] kind = "IFJ_SYMBOL_SETTER" -> "Setter redefined"
                            [] OTHER -> "Function redefined")]
        ELSE LET ins == symtable_insert(s0.global_table, key, data, FALSE)
                 s1  == generate_function_prolog(
                          [s0 EXCEPT !.global_table = ins.table], name, arity)
             IN  [entered |-> TRUE,
                  s |-> [s1 EXCEPT !.current_function = name,
                                   !.in_function = TRUE,
                                   !.function_param_count = arity,
                                   !.local_table = symtable_init]]

\* generate_function_epilog and the cleaning of the function context
LeaveCallable(s) ==
  Return([heap_call(generate_function_epilog(s))
            EXCEPT !.current_function = NULL_STR,
                   !.in_function = FALSE,
                   !.function_param_count = 0])

\* a head of a function that enters the first parameter in the local table
FunctionHead_declares_param(s) ==
  IF ~accept(s, "TOKEN_RIGHT_PAREN") THEN Return(expect(s, "TOKEN_RIGHT_PAREN"))
  ELSE LET d == DeclareCallable(next_token(s), "IFJ_SYMBOL_FUNC",
                                Top(s).name, Top(s).n)
           p == symtable_insert(d.s.local_table, "a",
                                symdata_create_var("IFJ_TYPE_NULL"), FALSE)
       IN  IF d.entered
             THEN Call([d.s EXCEPT !.local_table = IF Top(s).n > 0 THEN p.table ELSE @],
                       "parse_block", 470, 422)
             ELSE Return(d.s)

\* parse_function from "Expect )" on: lines 369-419
FunctionHead(s) ==
  IF ~accept(s, "TOKEN_RIGHT_PAREN") THEN Return(expect(s, "TOKEN_RIGHT_PAREN"))
  ELSE LET d == DeclareCallable(next_token(s), "IFJ_SYMBOL_FUNC",
                                Top(s).name, Top(s).n)
       IN  IF d.entered THEN Call(d.s, "parse_block", 470, 422) ELSE Return(d.s)

parse_function(s) ==
  LET pc == Top(s).pc
      f  == Top(s)
  IN  CASE pc = 313 -> Goto(next_token(s), 316)
        [] pc = 316 ->
             IF ~accept(s, "TOKEN_IDENTIFIER")
               THEN Return(expect(s, "TOKEN_IDENTIFIER"))
               ELSE next_token(heap_call(
                      SetTop(s, [f EXCEPT !.name = s.cur.value, !.pc = 325])))
        [] pc = 325 ->
             IF accept(s, "TOKEN_LEFT_BRACE")
               THEN CallWith(s, "parse_getter", 1137, f.name, 327)
             ELSE IF accept(s, "TOKEN_ASSIGN")
               THEN CallWith(s, "parse_setter", 1194, f.name, 327)
             ELSE ExpectNext(s, "TOKEN_LEFT_PAREN", 346)
        [] pc = 327 -> Return(heap_call(s))
        [] pc = 346 ->
             IF accept(s, "TOKEN_RIGHT_PAREN") THEN FunctionHead(s)
             ELSE IF ~accept(s, "TOKEN_IDENTIFIER")
               THEN Return(expect(s, "TOKEN_IDENTIFIER"))
             ELSE next_token(SetTop(s, [f EXCEPT !.n = 1, !.pc = 357]))
        [] pc = 357 ->
             IF accept(s, "TOKEN_COMMA") THEN Goto(next_token(s), 359)
             ELSE FunctionHead(s)
        [] pc = 359 ->
             IF ~accept(s, "TOKEN_IDENTIFIER")
               THEN Return(expect(s, "TOKEN_IDENTIFIER"))
               ELSE next_token(SetTop(s, [f EXCEPT !.n = @ + 1, !.pc = 357]))
        [] pc = 422 -> LeaveCallable(s)

parse_getter(s) ==
  LET pc == Top(s).pc
  IN  CASE pc = 1137 ->
             LET d == DeclareCallable(s, "IFJ_SYMBOL_GETTER", Top(s).name, 0)
             IN  IF d.entered THEN Call(d.s, "parse_block", 470, 1180) ELSE Return(d.s)
        [] pc = 1180 -> LeaveCallable(s)

parse_setter(s) ==
  LET pc == Top(s).pc
      f  == Top(s)
  IN  CASE pc = 1194 -> Goto(next_token(s), 1197)
        [] pc = 1197 -> ExpectNext(s, "TOKEN_LEFT_PAREN", 1201)
        [] pc = 1201 ->
             IF ~accept(s, "TOKEN_IDENTIFIER")
               THEN Return(expect(s, "TOKEN_IDENTIFIER"))
               ELSE next_token(heap_call(
                      SetTop(s, [f EXCEPT !.name2 = s.cur.value, !.pc = 1211])))
        [] pc = 1211 ->
             IF ~accept(s, "TOKEN_RIGHT_PAREN")
               THEN Return(expect(s, "TOKEN_RIGHT_PAREN"))
             ELSE LET d == DeclareCallable(next_token(s), "IFJ_SYMBOL_SETTER", f.name, 1)
                      p == symtable_insert(d.s.local_table, f.name2,
                                           symdata_create_var("IFJ_TYPE_NULL"), FALSE)
                  IN  IF d.entered
                        THEN Call([d.s EXCEPT !.local_table = p.table],
                                  "parse_block", 470, 1270)
                        ELSE Return(d.s)
        [] pc = 1270 -> LeaveCallable(s)

\* a parse_block whose loop does not look at the error latch
parse_block_ignores_latch(s) ==
  LET pc == Top(s).pc
  IN  CASE pc = 470 -> ExpectNext(s, "TOKEN_LEFT_BRACE", 474)
        [] pc = 474 -> ExpectNext(s, "TOKEN_EOL", 478)
        [] pc = 478 ->
             IF ~accept(s, "TOKEN_RIGHT_BRACE")
               THEN Call(s, "parse_statement", 497, 482)
               ELSE ExpectNextReturn(s, "TOKEN_RIGHT_BRACE")
        [] pc = 482 ->
             IF ~accept(s, "TOKEN_RIGHT_BRACE")
               THEN ExpectNext(s, "TOKEN_EOL", 478)
               ELSE Goto(s, 478)

parse_block(s) ==
  LET pc == Top(s).pc
  IN  CASE pc = 470 -> ExpectNext(s, "TOKEN_LEFT_BRACE", 474)
        [] pc = 474 -> ExpectNext(s, "TOKEN_EOL", 478)
        [] pc = 478 ->
             IF ~accept(s, "TOKEN_RIGHT_BRACE") /\ ~s.had_error
               THEN Call(s, "parse_statement", 497, 482)
               ELSE ExpectNextReturn(s, "TOKEN_RIGHT_BRACE")
        [] pc = 482 ->
             IF ~accept(s, "TOKEN_RIGHT_BRACE")
               THEN ExpectNext(s, "TOKEN_EOL", 478)
               ELSE Goto(s, 478)

\* a parse_statement that takes an identifier without `=` for a syntax error
parse_statement_syntax_error(s) ==
  LET pc == Top(s).pc
      f  == Top(s)
  IN  CASE pc = 497 ->
             IF accept(s, "TOKEN_VAR") THEN Call(s, "parse_var_declaration", 543, 523)
             ELSE IF accept(s, "TOKEN_IF") THEN Call(s, "parse_if_statement", 675, 523)
             ELSE IF accept(s, "TOKEN_WHILE")
               THEN Call(s, "parse_while_statement", 737, 523)
             ELSE IF accept(s, "TOKEN_RETURN") THEN Call(s, "parse_return", 794, 523)
             ELSE IF accept(s, "TOKEN_IDENTIFIER") \/ accept(s, "TOKEN_GLOBAL_IDENTIFIER")
               THEN next_token(SetTop(s, [f EXCEPT !.saved = s.cur, !.pc = 510]))
             ELSE Return(error(s, SYNTAX_ERROR, "Invalid statement"))
        [] pc = 510 ->
             IF accept(s, "TOKEN_ASSIGN")
               THEN Call([s EXCEPT !.cur = f.saved], "parse_assignment", 605, 523)
               ELSE Return(error([s EXCEPT !.cur = f.saved], SYNTAX_ERROR,
                                 "Invalid statement"))
        [] pc = 523 -> Return(s)

parse_statement(s) ==
  LET pc == Top(s).pc
      f  == Top(s)
  IN  CASE pc = 497 ->
             IF accept(s, "TOKEN_VAR") THEN Call(s, "parse_var_declaration", 543, 523)
             ELSE IF accept(s, "TOKEN_IF") THEN Call(s, "parse_if_statement", 675, 523)
             ELSE IF accept(s, "TOKEN_WHILE")
               THEN Call(s, "parse_while_statement", 737, 523)
             ELSE IF accept(s, "TOKEN_RETURN") THEN Call(s, "parse_return", 794, 523)
             ELSE IF accept(s, "TOKEN_IDENTIFIER") \/ accept(s, "TOKEN_GLOBAL_IDENTIFIER")
               \* saved_token keeps the pointer to the payload next_token frees
               THEN next_token(SetTop(s, [f EXCEPT !.saved = s.cur, !.pc = 510]))
             ELSE Return(error(s, SYNTAX_ERROR, "Invalid statement"))
        [] pc = 510 ->
             IF accept(s, "TOKEN_ASSIGN")
               THEN Call([s EXCEPT !.cur = f.saved], "parse_assignment", 605, 523)
               ELSE Return(error([s EXCEPT !.cur = f.saved], SEMANTIC_OTHER,
                      "Function call without assignment not supported in basic version"))
        [] pc = 523 -> Return(s)

\* a parse_var_declaration that does not look the name up before it inserts
parse_var_declaration_unchecked(s) ==
  LET pc == Top(s).pc
  IN  CASE pc = 543 -> Goto(next_token(s), 546)
        [] pc = 546 ->
             IF ~accept(s, "TOKEN_IDENTIFIER")
               THEN Return(expect(s, "TOKEN_IDENTIFIER"))
             ELSE LET var_name == s.cur.value
                      s0       == heap_call(s)
                      ins      == symtable_insert(s0.local_table, var_name,
                                    symdata_create_var("IFJ_TYPE_NULL"), FALSE)
                  IN  Return(next_token(generate_var_declaration(
                        [s0 EXCEPT !.local_table = ins.table], var_name, FALSE)))

parse_var_declaration(s) ==
  LET pc == Top(s).pc
  IN  CASE pc = 543 -> Goto(next_token(s), 546)
        [] pc = 546 ->
             IF ~accept(s, "TOKEN_IDENTIFIER")
               THEN Return(expect(s, "TOKEN_IDENTIFIER"))
             ELSE LET var_name == s.cur.value
                      s0       == heap_call(s)
                  IN  IF symtable_find(s0.local_table, var_name).found
                        THEN Return(error(s0, SEMANTIC_REDEFINITION, "Variable redefined"))
                        ELSE LET ins == symtable_insert(s0.local_table, var_name,
                                          symdata_create_var("IFJ_TYPE_NULL"), FALSE)
                             IN  Return(next_token(generate_var_declaration(
                                   [s0 EXCEPT !.local_table = ins.table],
                                   var_name, FALSE)))

\* char* p = strdup(text): a new block, its id kept in the frame's ptr
strdup_ptr(s, text) ==
  LET f == Top(s)
  IN  [heap_call(SetTop(s, [f EXCEPT !.name2 = text, !.ptr = s.next_id]))
         EXCEPT !.heap = @ \cup {s.next_id}, !.next_id = @ + 1]

parse_assignment(s) ==
  LET pc == Top(s).pc
      f  == Top(s)
  IN  CASE pc = 605 ->
             IF ~(accept(s, "TOKEN_IDENTIFIER") \/ accept(s, "TOKEN_GLOBAL_IDENTIFIER"))
               THEN Return(error(s, SYNTAX_ERROR, "Expected identifier in assignment"))
             \* var_name = strdup(parser->current_token.value)
             ELSE LET var_name  == ReadValue(s)
                      is_global == accept(s, "TOKEN_GLOBAL_IDENTIFIER")
                      s0        == heap_call(s)
                  IN  IF ~is_global /\ ~symtable_find(s0.local_table, var_name).found
                        THEN Return(heap_call(error(s0, SEMANTIC_UNDEFINED,
                                                    "Undefined local variable")))
                        ELSE next_token(SetTop(s0, [f EXCEPT !.name = var_name,
                                                             !.is_global = is_global,
                                                             !.pc = 635]))
        [] pc = 635 ->
             IF accept(s, "TOKEN_IDENTIFIER")
               THEN next_token(Goto(strdup_ptr(s, s.cur.value), 640))
               ELSE Call(s, "parse_expression", 876, 665)
        [] pc = 640 ->
             IF accept(s, "TOKEN_LEFT_PAREN")
               THEN CallWith(s, "parse_function_call", 808, f.name2, 658)
               \* the current token becomes an identifier whose payload is
               \* func_name itself
               ELSE Call([SetTop(s, [f EXCEPT !.saved = s.cur]) EXCEPT
                            !.cur = [type |-> "TOKEN_IDENTIFIER", value |-> f.name2,
                                     id |-> f.ptr]],
                         "parse_expression", 876, 655)
        [] pc = 655 ->
             Return(heap_call(generate_assignment(
                      Free([s EXCEPT !.cur = f.saved], f.ptr), f.name, f.is_global)))
        [] pc = 658 ->
             Return(heap_call(generate_assignment(Free(s, f.ptr),
                                                  f.name, f.is_global)))
        [] pc = 665 ->
             Return(heap_call(generate_assignment(s, f.name, f.is_global)))

parse_if_statement(s) ==
  LET pc == Top(s).pc
      f  == Top(s)
  IN  CASE pc = 675 ->
             LET g1 == generate_label(s)
                 g2 == generate_label(g1.s)
             IN  next_token(SetTop(g2.s, [f EXCEPT !.l1 = g1.label, !.l2 = g2.label,
                                                    !.pc = 682]))
        [] pc = 682 ->
             IF ~accept(s, "TOKEN_LEFT_PAREN")
               THEN Return(heap_call(expect(s, "TOKEN_LEFT_PAREN")))
             ELSE Call(next_token(s), "parse_expression", 876, 693)
        [] pc = 693 ->
             LET s1 == emit_all(s, << "POPS LF@cond",
                                      "JUMPIFEQ " \o f.l1 \o " LF@cond bool@false" >>)
             IN  IF ~accept(s1, "TOKEN_RIGHT_PAREN")
                   THEN Return(heap_call(expect(s1, "TOKEN_RIGHT_PAREN")))
                 ELSE Call(next_token(s1), "parse_block", 470, 708)
        [] pc = 708 ->
             LET s1 == emit_all(s, << "JUMP " \o f.l2, "LABEL " \o f.l1 >>)
             IN  IF ~accept(s1, "TOKEN_ELSE")
                   THEN Return(heap_call(error(expect(s1, "TOKEN_ELSE"), SYNTAX_ERROR,
                                               "Expected else in if statement")))
                 ELSE Call(next_token(s1), "parse_block", 470, 726)
        [] pc = 726 -> Return(heap_call(emit(s, "LABEL " \o f.l2)))

parse_while_statement(s) ==
  LET pc == Top(s).pc
      f  == Top(s)
  IN  CASE pc = 737 ->
             LET g1 == generate_label(s)
                 g2 == generate_label(g1.s)
             IN  next_token(emit(SetTop(g2.s, [f EXCEPT !.l1 = g1.label,
                                                         !.l2 = g2.label, !.pc = 747]),
                                 "LABEL " \o g1.label))
        [] pc = 747 ->
             IF ~accept(s, "TOKEN_LEFT_PAREN")
               THEN Return(heap_call(expect(s, "TOKEN_LEFT_PAREN")))
             ELSE Call(next_token(s), "parse_expression", 876, 758)
        [] pc = 758 ->
             LET s1 == emit_all(s, << "POPS LF@cond",
                                      "JUMPIFEQ " \o f.l2 \o " LF@cond bool@false" >>)
             IN  IF ~accept(s1, "TOKEN_RIGHT_PAREN")
                   THEN Return(heap_call(expect(s1, "TOKEN_RIGHT_PAREN")))
                 ELSE Call(next_token(s1), "parse_block", 470, 773)
        [] pc = 773 ->
             Return(heap_call(emit_all(s, << "JUMP " \o f.l1, "LABEL " \o f.l2 >>)))

parse_return(s) ==
  LET pc == Top(s).pc
  IN  CASE pc = 794 -> Call(next_token(s), "parse_expression", 876, 800)
        [] pc = 800 -> Return(s)

\* strncmp(func_name, "Ifj.", 4) == 0: the names that begin with "Ifj."
\* (no identifier token does: '.' ends an identifier in read_identifier)
IfjPrefixed == {"Ifj.write", "Ifj.read_num", "Ifj.read_str"}

\* a call that is generated without the lookup of its key
CallTail_unchecked(s) ==
  IF ~accept(s, "TOKEN_RIGHT_PAREN") THEN Return(expect(s, "TOKEN_RIGHT_PAREN"))
  ELSE Return(generate_function_call(next_token(s), Top(s).name, Top(s).n, FALSE))

\* parse_function_call from "Expect )" on: lines 827-846
CallTail(s) ==
  IF ~accept(s, "TOKEN_RIGHT_PAREN") THEN Return(expect(s, "TOKEN_RIGHT_PAREN"))
  ELSE LET f   == Top(s)
           s1  == next_token(s)
           key == MakeKey(f.name, f.n)
       IN  IF f.name \in IfjPrefixed
             THEN Return(generate_function_call(s1, f.name, f.n, TRUE))
           ELSE IF ~symtable_find(s1.global_table, key).found
             THEN Return(error(s1, SEMANTIC_UNDEFINED, "Function not defined"))
           ELSE Return(generate_function_call(s1, f.name, f.n, FALSE))

parse_function_call(s) ==
  LET pc == Top(s).pc
      f  == Top(s)
  IN  CASE pc = 808 -> ExpectNext(s, "TOKEN_LEFT_PAREN", 813)
        [] pc = 813 ->
             IF ~accept(s, "TOKEN_RIGHT_PAREN")
               THEN Call(s, "parse_expression", 876, 816)
               ELSE CallTail(s)
        [] pc = 816 ->
             LET s1 == SetTop(s, [f EXCEPT !.n = @ + 1])
             IN  IF accept(s1, "TOKEN_COMMA")
                   THEN Call(next_token(s1), "parse_expression", 876, 816)
                   ELSE CallTail(s1)

parse_expression(s) ==
  LET pc == Top(s).pc
  IN  CASE pc = 876 -> Call(s, "parse_is_expression", 883, 877)
        [] pc = 877 -> Return(s)

parse_is_expression(s) ==
  LET pc == Top(s).pc
  IN  CASE pc = 883 -> Call(s, "parse_relation", 906, 885)
        [] pc = 885 ->
             IF accept(s, "TOKEN_IS") THEN Goto(next_token(s), 889) ELSE Return(s)
        [] pc = 889 ->
             IF ~IS_TYPE_TOKEN(s.cur.type)
               THEN Return(error(s, SYNTAX_ERROR, "Expected type after is operator"))
             ELSE Return(generate_is_op(next_token(s), s.cur.type))

parse_relation(s) ==
  LET pc == Top(s).pc
      f  == Top(s)
      loop(t) ==
        IF IS_REL_OPERATOR(t.cur.type)
          THEN Call(next_token(SetTop(t, [Top(t) EXCEPT !.op = t.cur.type])),
                    "parse_simple_expression", 923, 915)
          ELSE Return(t)
  IN  CASE pc = 906 -> Call(s, "parse_simple_expression", 923, 908)
        [] pc = 908 -> loop(s)
        [] pc = 915 -> loop(generate_relational_op(s, f.op))

\* a parse_simple_expression that gives all four operators one precedence
parse_simple_expression_flat(s) ==
  LET pc == Top(s).pc
      f  == Top(s)
      loop(t) ==
        IF \/ accept(t, "TOKEN_PLUS") \/ accept(t, "TOKEN_MINUS")
           \/ accept(t, "TOKEN_MULTIPLY") \/ accept(t, "TOKEN_DIVIDE")
          THEN Call(next_token(SetTop(t, [Top(t) EXCEPT !.op = t.cur.type])),
                    "parse_factor", 957, 932)
          ELSE Return(t)
  IN  CASE pc = 923 -> Call(s, "parse_factor", 957, 925)
        [] pc = 925 -> loop(s)
        [] pc = 932 -> loop(generate_binary_op(s, f.op))

parse_simple_expression(s) ==
  LET pc == Top(s).pc
      f  == Top(s)
      loop(t) ==
        IF accept(t, "TOKEN_PLUS") \/ accept(t, "TOKEN_MINUS")
          THEN Call(next_token(SetTop(t, [Top(t) EXCEPT !.op = t.cur.type])),
                    "parse_term", 940, 932)
          ELSE Return(t)
  IN  CASE pc = 923 -> Call(s, "parse_term", 940, 925)
        [] pc = 925 -> loop(s)
        [] pc = 932 -> loop(generate_binary_op(s, f.op))

parse_term(s) ==
  LET pc == Top(s).pc
      f  == Top(s)
      loop(t) ==
        IF accept(t, "TOKEN_MULTIPLY") \/ accept(t, "TOKEN_DIVIDE")
          THEN Call(next_token(SetTop(t, [Top(t) EXCEPT !.op = t.cur.type])),
                    "parse_factor", 957, 949)
          ELSE Return(t)
  IN  CASE pc = 940 -> Call(s, "parse_factor", 957, 942)
        [] pc = 942 -> loop(s)
        [] pc = 949 -> loop(generate_binary_op(s, f.op))

parse_factor(s) ==
  LET pc   == Top(s).pc
      type == s.cur.type
      name == ReadValue(s)
      push(prefix) == Return(next_token(emit(s, "PUSHS " \o prefix \o name)))
  IN  CASE pc = 957 ->
             CASE type = "TOKEN_IDENTIFIER" ->
                    IF ~symtable_find(s.local_table, name).found
                      THEN Return(error(s, SEMANTIC_UNDEFINED, "Undefined variable"))
                      ELSE push("LF@")
               [] type = "TOKEN_GLOBAL_IDENTIFIER" -> push("GF@")
               [] type = "TOKEN_INT_LITERAL"       -> push("int@")
               [] type = "TOKEN_FLOAT_LITERAL"     -> push("float@")
               [] type = "TOKEN_STRING_LITERAL"    -> push("string@")
               [] type = "TOKEN_NULL" -> Return(next_token(emit(s, "PUSHS nil@nil")))
               [] type = "TOKEN_LEFT_PAREN" ->
                    Call(next_token(s), "parse_expression", 876, 1010)
               [] OTHER -> Return(error(s, SYNTAX_ERROR, "Invalid factor in expression"))
        [] pc = 1010 -> ExpectNextReturn(s, "TOKEN_RIGHT_PAREN")

\* parser_init: the fields set at lines 65-74, then the first token.  The
\* Parser is the first block the process allocates, so the payload pointer
\* next_token tests before the first token is read is the zero of fresh memory.
parser_init(s) ==
  next_token([s EXCEPT !.cur = [type |-> NULL_STR, value |-> NULL_STR, id |-> 0],
                       !.global_table = symtable_init,
                       !.local_table = NULL,
                       !.had_error = FALSE,
                       !.error_code = SUCCESS,
                       !.label_counter = 0,
                       !.temp_var_counter = 0,
                       !.current_function = NULL_STR,
                       !.in_function = FALSE,
                       !.function_param_count = 0])

\* parser_destroy: both tables and the function name are freed; the payload
\* of the current token is not
parser_destroy(s) ==
  [heap_call(s) EXCEPT !.global_table = NULL, !.local_table = NULL,
                       !.current_function = NULL_STR]

\* main() of main.c: the exit status is the value of parse_program
main(s) ==
  LET pc == Top(s).pc
  IN  CASE pc = 21 -> Call(parser_init(s), "parse_program", 182, 31)
        [] pc = 31 ->
             LET s1 == Return(parser_destroy(s))
             IN  IF Running(s1) THEN [s1 EXCEPT !.status = "exited"] ELSE s1


(***************************************************************************)
(* The source text.  It is written line by line while the compiler reads   *)
(* it: the writer follows the shape of a program (import line, class line, *)
(* callables with statements, closing brace), drawing each line from the   *)
(* menu of the family scen, and may stop after any line.  The writer also  *)
(* keeps book of what it has written: gen.valid says that the text so far  *)
(* is the beginning of a valid program, gen.keys holds the callables that  *)
(* text declares, gen.last is the line written last.                       *)
(***************************************************************************)
Scenarios ==
  {"header", "decl", "redef", "assign", "call", "control", "arith", "lexical", "vars",
   "cut"}

Line(tokens) == tokens \o <<EOL>>

ImportLines ==
  IF scen = "header"
    THEN { Line(<<KwImport, StrLit("ifj25"), KwFor, KwIfj>>),
           Line(<<KwImport, StrLit("ifj24"), KwFor, KwIfj>>),
           Line(<<KwImport, StrLit("ifj25"), KwIfj>>),
           Line(<<KwImport, StrLit("ifj25"), KwFor, KwIfj, KwIfj>>),
           Line(<<KwClass, Ident("Program"), LBrace>>) }
    ELSE { Line(<<KwImport, StrLit("ifj25"), KwFor, KwIfj>>) }

ClassLines ==
  IF scen = "header"
    THEN { Line(<<KwClass, Ident("Program"), LBrace>>),
           Line(<<KwClass, Ident("main"), LBrace>>),
           Line(<<KwClass, Ident("Program")>>),
           Line(<<Ident("Program"), LBrace>>),
           <<KwClass, Ident("Program"), LBrace, RBrace>> }
    ELSE { Line(<<KwClass, Ident("Program"), LBrace>>) }

Header(name, form) ==
  CASE form = "f0"  -> Line(<<KwStatic, Ident(name), LParen, RParen, LBrace>>)
    [] form = "f1"  -> Line(<<KwStatic, Ident(name), LParen, Ident("a"), RParen, LBrace>>)
    [] form = "f2"  -> Line(<<KwStatic, Ident(name), LParen, Ident("a"), Comma,
                              Ident("v"), RParen, LBrace>>)
    [] form = "get" -> Line(<<KwStatic, Ident(name), LBrace>>)
    [] form = "set" -> Line(<<KwStatic, Ident(name), Assign, LParen, Ident("v"),
                              RParen, LBrace>>)

HeaderLines ==
  CASE scen = "header" ->
         { Header("main", "f0"), Line(<<>>), Line(<<KwVar, Ident("x")>>),
           Line(<<KwStatic, LParen>>), Line(<<KwStatic, Ident("f"), RParen>>),
           Line(<<KwStatic, Ident("f"), LParen, Comma>>),
           Line(<<KwStatic, Ident("f"), LParen, Ident("a"), Comma, RParen>>),
           Line(<<KwStatic, Ident("f"), LParen, Ident("a"), LBrace>>),
           Line(<<KwStatic, Ident("f"), Assign, Ident("v")>>),
           Line(<<KwStatic, Ident("f"), Assign, LParen, RParen>>),
           Line(<<KwStatic, Ident("f"), Assign, LParen, Ident("v"), LBrace>>),
           Line(<<KwStatic, Ident("f"), LParen, RParen>>),
           <<KwStatic, Ident("f"), LParen, RParen, LBrace, RBrace>> }
    [] scen = "decl" ->
         { Header(n, fm) : n \in {"main", "f"}, fm \in {"f0", "f1", "get", "set"} }
    [] scen = "redef" -> { Header("f", "f0"), Header("f", "f1"), Header("f", "get") }
    [] scen = "assign"  -> { Header("main", "f0"), Header("main", "set") }
    [] scen = "call" ->
         { Header("main", "f0"), Header("f", "f0"), Header("f", "f1"),
           Header("f", "f2") }
    [] scen = "control" -> { Header("main", "f0") }
    [] scen = "arith"   -> { Header("main", "f0") }
    [] scen = "lexical" ->
         { Header("main", "f0"), Line(<<ErrTok("@")>>), Line(<<KwStatic, ErrTok("@")>>) }
    [] scen = "vars" ->
         { Header("main", "f0"), Header("f", "f1"), Header("f", "get"),
           Header("f", "set") }
    [] scen = "cut" -> { Header("f", "f2"), Header("f", "set") }

\* the statement `__g = Ifj.write(1)` as the scanner hands it over: the
\* namespace keyword, a dot, an identifier and the argument list
BuiltinCallLine ==
  Line(<<GlobalIdent("__g"), Assign, KwIfj, Dot, Ident("write"), LParen, IntLit("1"),
         RParen>>)

\* the statements `return e` with e an arithmetic expression over integer
\* literals
ArithmeticLines ==
  { Line(<<KwReturn, IntLit("2"), Plus, IntLit("3"), Star, IntLit("4")>>),
    Line(<<KwReturn, IntLit("2"), Star, IntLit("3"), Plus, IntLit("4"), Minus, IntLit("1")>>),
    Line(<<KwReturn, IntLit("4"), Minus, IntLit("3"), Minus, IntLit("2"), Plus, IntLit("1")>>),
    Line(<<KwReturn, IntLit("4"), Slash, IntLit("2"), Star, IntLit("3"), Slash, IntLit("1")>>),
    Line(<<KwReturn, IntLit("1"), Minus, IntLit("4"), Slash, IntLit("2"), Plus, IntLit("2"),
           Star, IntLit("3")>>),
    Line(<<KwReturn, IntLit("2"), Star, IntLit("3"), Minus, IntLit("4"), Star, IntLit("1")>>) }

StatementLines ==
  CASE scen = "header" -> { Line(<<KwVar, Ident("x")>>), Line(<<RParen>>) }
    [] scen = "decl"   -> { Line(<<KwVar, Ident("x")>>), Line(<<KwReturn, KwNull>>) }
    [] scen = "redef"  -> {}
    [] scen = "assign" ->
         { Line(<<KwVar, Ident("x")>>),
           Line(<<Ident("x"), Assign, IntLit("1")>>),
           Line(<<Ident("y"), Assign, IntLit("1")>>),
           Line(<<GlobalIdent("__g"), Assign, IntLit("1")>>),
           Line(<<GlobalIdent("__g"), Assign, GlobalIdent("__g")>>),
           Line(<<GlobalIdent("__g"), Assign, Ident("y")>>),
           Line(<<Ident("x"), Assign, Ident("x")>>),
           Line(<<Ident("v"), Assign, Plus>>),
           Line(<<KwReturn, Ident("y")>>),
           Line(<<KwReturn, Ident("x")>>),
           Line(<<KwReturn, KwNull>>) }
    [] scen = "call" ->
         { Line(<<GlobalIdent("__g"), Assign, Ident("f"), LParen, RParen>>),
           Line(<<GlobalIdent("__g"), Assign, Ident("f"), LParen, IntLit("1"), RParen>>),
           Line(<<GlobalIdent("__g"), Assign, Ident("f"), LParen, IntLit("1"),
                  Comma, IntLit("1"), RParen>>),
           Line(<<GlobalIdent("__g"), Assign, Ident("h"), LParen, RParen>>),
           Line(<<GlobalIdent("__g"), Assign, Ident("f"), LParen, IntLit("1")>>),
           Line(<<Ident("f"), LParen, RParen>>),
           BuiltinCallLine }
    [] scen = "control" ->
         { Line(<<KwReturn, IntLit("1"), Plus, IntLit("2"), Star, StrLit("s")>>),
           Line(<<KwReturn, LParen, KwNull, RParen, KwIs, KwNum>>),
           Line(<<KwReturn, FloatLit("1.5"), Less, IntLit("2"), KwIs, KwNull>>),
           Line(<<KwReturn, LParen, IntLit("1")>>),
           Line(<<KwIf, IntLit("1")>>),
           Line(<<KwWhile, IntLit("1")>>),
           Line(<<KwIf, LParen, IntLit("1"), LBrace>>),
           Line(<<KwWhile, LParen, IntLit("1"), LBrace>>) }
    [] scen = "arith" -> ArithmeticLines
    [] scen = "lexical" ->
         { Line(<<ErrTok("@")>>),
           Line(<<KwVar, Ident("x"), ErrTok("@")>>),
           Line(<<KwReturn, ErrTok("#")>>),
           Line(<<KwReturn, IntLit("1"), ErrTok("#"), IntLit("2")>>),
           Line(<<KwReturn, KwNull>>) }
    [] scen = "vars" ->
         { Line(<<KwVar, Ident("x")>>),
           Line(<<KwVar, Ident("v")>>),
           Line(<<KwVar, Ident("a")>>),
           Line(<<KwReturn, Ident("a")>>),
           Line(<<KwReturn, Ident("v")>>),
           Line(<<Ident("a"), Assign, IntLit("1")>>),
           Line(<<Ident("x")>>),
           Line(<<GlobalIdent("__g"), Plus, IntLit("1")>>) }
    [] scen = "cut" ->
         { Line(<<KwVar, Ident("x")>>),
           Line(<<GlobalIdent("__g"), Assign, Ident("f"), LParen, IntLit("1"), Comma,
                  IntLit("2"), RParen>>),
           Line(<<KwReturn, LParen, IntLit("1"), Plus, IntLit("2"), RParen, Star,
                  IntLit("3"), Less, IntLit("4"), KwIs, KwNum>>) }

\* lines that open a block, with the kind of block they open
OpenerLines ==
  IF scen \in {"control", "vars", "cut"}
    THEN { [kind |-> "then",
            line |-> Line(<<KwIf, LParen, IntLit("1"), Less, IntLit("2"), RParen, LBrace>>)],
           [kind |-> "while",
            line |-> Line(<<KwWhile, LParen, KwNull, RParen, LBrace>>)] }
    ELSE {}

\* lines that close the innermost open block
CloserLines(kind) ==
  CASE kind = "then" ->
         { [line |-> Line(<<RBrace, KwElse, LBrace>>), becomes |-> <<"else">>],
           [line |-> Line(<<RBrace>>), becomes |-> <<>>] }
    [] OTHER -> { [line |-> Line(<<RBrace>>), becomes |-> <<>>] }

\* the families about statements keep to one callable, the family about
\* redefinition has room for a third
MembersLimit ==
  CASE scen \in {"assign", "control", "arith", "lexical", "vars", "cut"} -> 1
    [] scen = "redef" -> MaxMembers + 1
    [] OTHER -> MaxMembers

\* the family about variables has room for a declaration inside a block and
\* one behind it
StmtsLimit == IF scen = "vars" THEN MaxStmts + 1 ELSE MaxStmts

GenStart ==
  [phase |-> "import", members |-> 0, stmts |-> 0, open |-> <<>>,
   valid |-> TRUE, keys |-> {}, last |-> <<>>]

FormArity(form) ==
  CASE form = "f1" -> 1 [] form = "f2" -> 2 [] form = "set" -> 1 [] OTHER -> 0

\* the key a well-formed header line declares, NULL_STR for any other line
HeaderKey(l) ==
  LET hs == { h \in {"main", "f"} \X {"f0", "f1", "f2", "get", "set"} :
                l = Header(h[1], h[2]) }
  IN  IF hs = {} THEN NULL_STR
      ELSE LET h == CHOOSE h \in hs : TRUE IN MakeKey(h[1], FormArity(h[2]))

\* the statements that are valid wherever a statement may stand; a
\* declaration of x is valid as the first statement of a callable
ValidStatement(l) ==
  \/ l \in { Line(<<KwReturn, KwNull>>),
             Line(<<GlobalIdent("__g"), Assign, IntLit("1")>>) }
  \/ l \in ArithmeticLines
  \/ l = Line(<<KwVar, Ident("x")>>) /\ gen.stmts = 0

\* the lines the writer may write next, each with the writer's next state
NextLines ==
  CASE gen.phase = "import" ->
         { [line |-> l,
            gen  |-> [gen EXCEPT !.phase = "class",
                        !.valid = @ /\ l = Line(<<KwImport, StrLit("ifj25"), KwFor, KwIfj>>)]]
             : l \in ImportLines }
    [] gen.phase = "class" ->
         { [line |-> l,
            gen  |-> [gen EXCEPT !.phase = "members",
                        !.valid = @ /\ l = Line(<<KwClass, Ident("Program"), LBrace>>)]]
             : l \in ClassLines }
    [] gen.phase = "members" ->
         { [line |-> l,
            gen  |-> [gen EXCEPT !.phase = "body", !.stmts = 0,
                        !.members = @ + 1, !.open = <<"fn">>,
                        !.valid = @ /\ HeaderKey(l) \notin gen.keys \cup {NULL_STR},
                        !.keys = IF HeaderKey(l) = NULL_STR THEN @
                                 ELSE @ \cup {HeaderKey(l)}]]
             : l \in IF gen.members < MembersLimit THEN HeaderLines ELSE {} }
         \cup { [line |-> <<RBrace>>, gen |-> [gen EXCEPT !.phase = "end"]] }
    [] gen.phase = "body" ->
         LET depth == Len(gen.open)
             kind  == gen.open[depth]
             below == SubSeq(gen.open, 1, depth - 1)
         IN  { [line |-> l,
                gen  |-> [gen EXCEPT !.stmts = @ + 1,
                                     !.valid = @ /\ ValidStatement(l)]]
                 : l \in IF gen.stmts < StmtsLimit THEN StatementLines ELSE {} }
             \cup
             { [line |-> o.line,
                gen  |-> [gen EXCEPT !.stmts = @ + 1, !.open = Append(@, o.kind),
                                     !.valid = @ /\ o.kind = "then"]]
                 : o \in IF gen.stmts < StmtsLimit THEN OpenerLines ELSE {} }
             \cup
             { [line |-> c.line,
                gen  |-> [gen EXCEPT !.open = below \o c.becomes,
                                     !.phase = IF below \o c.becomes = <<>>
                                                 THEN "members" ELSE "body",
                                     !.valid = @ /\ (kind = "then" => c.becomes # <<>>)]]
                 : c \in CloserLines(kind) }
    [] OTHER -> {}

(***************************************************************************)
(* The compiler run: main() of main.c over the source text.                *)
(***************************************************************************)
ParserInit ==
  /\ tab = symtable_init
  /\ ref = [k \in TableKeys |-> NULL]
  /\ tab_call = [op |-> "init", key |-> NULL_STR, data |-> NULL]
  /\ tab_ret = TRUE
  /\ tab_heap = [malloc |-> Blocks("table", 1), free |-> NoBlocks]
  /\ current_token = [type |-> NULL_STR, value |-> NULL_STR, id |-> 0]
  /\ global_table = NULL /\ local_table = NULL
  /\ had_error = FALSE /\ error_code = SUCCESS
  /\ label_counter = 0 /\ temp_var_counter = 0
  /\ current_function = NULL_STR /\ in_function = FALSE /\ function_param_count = 0
  /\ out = <<>> /\ input = <<>> /\ closed = FALSE /\ heap = {} /\ next_id = 1
  /\ corrupt = FALSE /\ diag = <<>> /\ idle = [steps |-> 0, depth |-> 0]
  /\ stack = <<Frame("main", 21)>> /\ status = "running" /\ result = 0
  /\ scen \in Scenarios
  /\ gen = GenStart
  /\ machine = NULL /\ scanner = NULL

\* the writer writes one more line
Feed ==
  /\ status = "running" /\ input = <<>> /\ ~closed
  /\ \E n \in NextLines :
       /\ input' = n.line
       /\ gen' = [n.gen EXCEPT !.last = n.line]
  /\ UNCHANGED <<tvars, mvars, svars, scen, current_token, global_table, local_table, had_error,
                 error_code, label_counter, temp_var_counter, current_function,
                 in_function, function_param_count, out, closed, heap, next_id,
                 corrupt, diag, stack, status, result, idle>>

\* the source text ends in the middle of a line: the family about cut texts
\* ends after any token of any line the writer may write next
FeedCut ==
  /\ status = "running" /\ input = <<>> /\ ~closed
  /\ scen = "cut"
  /\ \E n \in NextLines :
       \E k \in 1..(Len(n.line) - 1) :
         /\ input' = SubSeq(n.line, 1, k)
         /\ gen' = [n.gen EXCEPT !.last = SubSeq(n.line, 1, k), !.valid = FALSE]
  /\ closed' = TRUE
  /\ UNCHANGED <<tvars, mvars, svars, scen, current_token, global_table, local_table, had_error,
                 error_code, label_counter, temp_var_counter, current_function,
                 in_function, function_param_count, out, heap, next_id,
                 corrupt, diag, stack, status, result, idle>>

\* the source text ends here; it is a whole program when the closing brace
\* of the class was its last line
CloseInput ==
  /\ status = "running" /\ input = <<>> /\ ~closed
  /\ closed' = TRUE
  /\ gen' = [gen EXCEPT !.valid = @ /\ gen.phase = "end"]
  /\ UNCHANGED <<tvars, mvars, svars, scen, current_token, global_table, local_table, had_error,
                 error_code, label_counter, temp_var_counter, current_function,
                 in_function, function_param_count, out, input, heap, next_id,
                 corrupt, diag, stack, status, result, idle>>

\* the outcomes of undefined behaviour a step may meet: they matter where the
\* current token points to a freed payload, in parse_assignment and once the
\* heap is damaged
UBOutcomes ==
  IF \/ Dangling(S(NULL), current_token.id)
     \/ stack[Len(stack)].fn = "parse_assignment"
     \/ corrupt
    THEN [read : {"kept", "overwritten"}, free : {"ignore", "abort"}]
    ELSE {[read |-> "kept", free |-> "ignore"]}

\* the innermost active call is a call of fn and the scanner can deliver
CanStep(fn) ==
  /\ status = "running"
  /\ stack # <<>>
  /\ stack[Len(stack)].fn = fn
  /\ input # <<>> \/ closed

Main == CanStep("main") /\ \E ub \in UBOutcomes : Commit(main(S(ub)))

ParseProgram ==
  CanStep("parse_program") /\ \E ub \in UBOutcomes : Commit(parse_program(S(ub)))

ParseProlog ==
  CanStep("parse_prolog") /\ \E ub \in UBOutcomes : Commit(parse_prolog(S(ub)))

ParseClass ==
  CanStep("parse_class") /\ \E ub \in UBOutcomes : Commit(parse_class(S(ub)))

ParseFunctionDefinitions ==
  /\ CanStep("parse_function_definitions")
  /\ \E ub \in UBOutcomes : Commit(parse_function_definitions(S(ub)))

ParseFunction ==
  CanStep("parse_function") /\ \E ub \in UBOutcomes : Commit(parse_function(S(ub)))

ParseGetter ==
  CanStep("parse_getter") /\ \E ub \in UBOutcomes : Commit(parse_getter(S(ub)))

ParseSetter ==
  CanStep("parse_setter") /\ \E ub \in UBOutcomes : Commit(parse_setter(S(ub)))

ParseBlock ==
  CanStep("parse_block") /\ \E ub \in UBOutcomes : Commit(parse_block(S(ub)))

ParseStatement ==
  CanStep("parse_statement") /\ \E ub \in UBOutcomes : Commit(parse_statement(S(ub)))

ParseVarDeclaration ==
  /\ CanStep("parse_var_declaration")
  /\ \E ub \in UBOutcomes : Commit(parse_var_declaration(S(ub)))

ParseAssignment ==
  CanStep("parse_assignment") /\ \E ub \in UBOutcomes : Commit(parse_assignment(S(ub)))

ParseIfStatement ==
  /\ CanStep("parse_if_statement")
  /\ \E ub \in UBOutcomes : Commit(parse_if_statement(S(ub)))

ParseWhileStatement ==
  /\ CanStep("parse_while_statement")
  /\ \E ub \in UBOutcomes : Commit(parse_while_statement(S(ub)))

ParseReturn ==
  CanStep("parse_return") /\ \E ub \in UBOutcomes : Commit(parse_return(S(ub)))

ParseFunctionCall ==
  /\ CanStep("parse_function_call")
  /\ \E ub \in UBOutcomes : Commit(parse_function_call(S(ub)))

ParseExpression ==
  CanStep("parse_expression") /\ \E ub \in UBOutcomes : Commit(parse_expression(S(ub)))

ParseIsExpression ==
  /\ CanStep("parse_is_expression")
  /\ \E ub \in UBOutcomes : Commit(parse_is_expression(S(ub)))

ParseRelation ==
  CanStep("parse_relation") /\ \E ub \in UBOutcomes : Commit(parse_relation(S(ub)))

ParseSimpleExpression ==
  /\ CanStep("parse_simple_expression")
  /\ \E ub \in UBOutcomes : Commit(parse_simple_expression(S(ub)))

ParseTerm ==
  CanStep("parse_term") /\ \E ub \in UBOutcomes : Commit(parse_term(S(ub)))

ParseFactor ==
  CanStep("parse_factor") /\ \E ub \in UBOutcomes : Commit(parse_factor(S(ub)))

ParserNext ==
  \/ Feed
  \/ FeedCut
  \/ CloseInput
  \/ Main
  \/ ParseProgram
  \/ ParseProlog
  \/ ParseClass
  \/ ParseFunctionDefinitions
  \/ ParseFunction
  \/ ParseGetter
  \/ ParseSetter
  \/ ParseBlock
  \/ ParseStatement
  \/ ParseVarDeclaration
  \/ ParseAssignment
  \/ ParseIfStatement
  \/ ParseWhileStatement
  \/ ParseReturn
  \/ ParseFunctionCall
  \/ ParseExpression
  \/ ParseIsExpression
  \/ ParseRelation
  \/ ParseSimpleExpression
  \/ ParseTerm
  \/ ParseFactor

ParserSpec == ParserInit /\ [][ParserNext]_vars

(***************************************************************************)
(* Derived notions used by the properties.                                 *)
(***************************************************************************)
RECURSIVE Nodes(_)
Nodes(t) == IF t = NULL THEN {} ELSE {t} \cup Nodes(t.left) \cup Nodes(t.right)

RECURSIVE TrueHeight(_)
TrueHeight(t) ==
  IF t = NULL THEN 0
  ELSE LET l == TrueHeight(t.left)
           r == TrueHeight(t.right)
       IN  1 + (IF l > r THEN l ELSE r)

RECURSIVE InOrder(_)
InOrder(t) ==
  IF t = NULL THEN <<>> ELSE InOrder(t.left) \o <<t.key>> \o InOrder(t.right)

StrictlyIncreasing(s) ==
  \A i \in 1..(Len(s) - 1) : Rank(s[i]) < Rank(s[i + 1])

(***************************************************************************)
(* C1: after any sequence of symtable_insert and symtable_delete calls,    *)
(* every node has |height(left) - height(right)| <= 1 and its cached       *)
(* height equals 1 + max of the heights of its children (0 if absent).     *)
(***************************************************************************)
C1_AVLInvariant ==
  \A n \in Nodes(tab.root) :
    /\ TrueHeight(n.left) - TrueHeight(n.right) \in {-1, 0, 1}
    /\ n.height = 1 + (IF height(n.left) > height(n.right)
                       THEN height(n.left) ELSE height(n.right))
    /\ n.height = TrueHeight(n)

\* a tree of height 3 reached by a delete that had to rebalance
C1_Witness ==
  /\ tab_call.op = "delete"
  /\ tab_ret
  /\ height(tab.root) = 3
  /\ Cardinality(Nodes(tab.root)) = 4

(***************************************************************************)
(* C2: the table is a key-to-record map: symtable_find(k) yields true and  *)
(* the record most recently inserted under k when k was inserted and not   *)
(* deleted since, and false with a NULL result otherwise.                  *)
(***************************************************************************)
C2_MapBehaviour ==
  \A k \in TableKeys :
    LET r == symtable_find(tab, k)
    IN  IF ref[k] = NULL
          THEN r.found = FALSE /\ r.data = NULL
          ELSE r.found = TRUE /\ r.data = ref[k]

\* a delete of a node with two children has moved another key's record, and
\* the keys still hold different records
C2_Witness ==
  /\ tab_call.op = "delete"
  /\ tab_ret
  /\ Cardinality(Nodes(tab.root)) >= 4
  /\ \E j, k \in TableKeys : ref[j] # NULL /\ ref[k] # NULL /\ ref[j] # ref[k]

(***************************************************************************)
(* C3: the in-order traversal lists the keys in strictly increasing order, *)
(* no key twice.                                                           *)
(***************************************************************************)
C3_InOrderSorted == StrictlyIncreasing(InOrder(tab.root))

C3_Witness ==
  /\ Len(InOrder(tab.root)) = NumKeys
  /\ tab_call.op = "insert"

(***************************************************************************)
(* Notions used by the properties of the compiler run.                     *)
(***************************************************************************)
Range(seq) == { seq[i] : i \in 1..Len(seq) }

\* the process is over: main returned or the C library aborted it
Ended == status \in {"exited", "aborted"}

TopFrame == stack[Len(stack)]

\* the lines a step writes to the output
NewLines == { out'[i] : i \in (Len(out) + 1)..Len(out') }

\* a step of the compiler (not of the writer) that runs to its end
CompletedStep == gen' = gen /\ closed' = closed /\ status' = "running"

\* the compiler is about to take a step
AboutToStep == status = "running" /\ stack # <<>> /\ (input # <<>> \/ closed)

\* the next step is the one that declares a callable: the parameter list of
\* a function or setter is closed, or parse_getter begins
Declaring ==
  /\ AboutToStep
  /\ \/ /\ TopFrame.fn = "parse_function" /\ TopFrame.pc \in {346, 357}
        /\ current_token.type = "TOKEN_RIGHT_PAREN"
     \/ TopFrame.fn = "parse_getter" /\ TopFrame.pc = 1137
     \/ /\ TopFrame.fn = "parse_setter" /\ TopFrame.pc = 1211
        /\ current_token.type = "TOKEN_RIGHT_PAREN"

DeclaredKey ==
  MakeKey(TopFrame.name,
          CASE TopFrame.fn = "parse_getter" -> 0
            [] TopFrame.fn = "parse_setter" -> 1
            [] OTHER -> TopFrame.n)

\* the next step is the one that ends the argument list of a call
CallEnding ==
  /\ AboutToStep
  /\ TopFrame.fn = "parse_function_call" /\ TopFrame.pc \in {813, 816}
  /\ current_token.type = "TOKEN_RIGHT_PAREN"

CallKey ==
  MakeKey(TopFrame.name, IF TopFrame.pc = 813 THEN TopFrame.n ELSE TopFrame.n + 1)

CallLines == { "CALL $" \o n : n \in {"main", "f", "h"} }

FunctionLabels == { "LABEL $" \o n : n \in {"main", "f", "h"} }

\* the lines of the output since the last function label: the code of the
\* callable being compiled
SinceLabel ==
  LET labels == { i \in 1..Len(out) : out[i] \in FunctionLabels }
      last   == IF labels = {} THEN 0
                ELSE CHOOSE i \in labels : \A j \in labels : j <= i
  IN  { out[i] : i \in (last + 1)..Len(out) }

(***************************************************************************)
(* C4: the error latch is first-error-wins.  had_error holds iff           *)
(* error_code differs from SUCCESS, and iff error() was called; the latch  *)
(* holds the code of the first call of error(); a step with no call of     *)
(* error() leaves the latch alone, the first call sets it, and once        *)
(* had_error is true error_code never changes.                             *)
(***************************************************************************)
C4_ErrorLatch ==
  /\ [](/\ had_error <=> error_code # SUCCESS
        /\ had_error <=> diag # <<>>
        /\ had_error => error_code = diag[1].code)
  /\ [][/\ had_error => had_error' /\ error_code' = error_code
        /\ diag' = diag => UNCHANGED <<had_error, error_code>>
        /\ ~had_error /\ diag' # diag =>
             had_error' /\ error_code' = diag'[1].code]_vars

\* error() was called twice with different codes and the first one is kept
C4_Witness ==
  /\ Len(diag) >= 2
  /\ diag[1].code # diag[2].code
  /\ had_error /\ error_code = diag[1].code

(***************************************************************************)
(* C5: the exit status of the process is the latched error code (0 if no   *)
(* error was latched), and EXIT int@0 is written to the output iff that    *)
(* status is 0.                                                            *)
(***************************************************************************)
C5_ExitStatus ==
  Ended =>
    /\ status = "exited"
    /\ result = error_code
    /\ ("EXIT int@0" \in Range(out)) <=> (result = 0)

(***************************************************************************)
(* C6: the run over a valid program ends, after the whole text was read,   *)
(* by a return of main; if the program declares main with no parameters no *)
(* error is latched, the exit status is 0 and the last two lines of the    *)
(* output are CALL $main and EXIT int@0; if it does not, the latch holds   *)
(* SEMANTIC_UNDEFINED and neither line is in the output.  (A run that ends *)
(* before the text is complete is the run over every program that begins   *)
(* with that text.)                                                        *)
(***************************************************************************)
C6_ValidProgramEpilog ==
  (Ended /\ gen.valid) =>
    /\ closed
    /\ status = "exited"
    /\ IF "main_0" \in gen.keys
         THEN /\ ~had_error /\ result = 0
              /\ Len(out) >= 2
              /\ out[Len(out) - 1] = "CALL $main"
              /\ out[Len(out)] = "EXIT int@0"
         ELSE /\ had_error /\ error_code = SEMANTIC_UNDEFINED
              /\ "CALL $main" \notin Range(out)
              /\ "EXIT int@0" \notin Range(out)

(***************************************************************************)
(* C7: the step that declares a callable whose key name_arity is already   *)
(* in the global table latches SEMANTIC_REDEFINITION and leaves the global *)
(* table as it is; when the key is not there the step latches nothing,     *)
(* enters the key and keeps every record the table held, so that f() and   *)
(* f(x) are both entered.                                                  *)
(***************************************************************************)
C7_Redefinition ==
  [][(Declaring /\ CompletedStep) =>
       IF symtable_find(global_table, DeclaredKey).found
         THEN /\ ~had_error /\ had_error'
              /\ error_code' = SEMANTIC_REDEFINITION
              /\ Len(diag') = Len(diag) + 1
              /\ global_table' = global_table
         ELSE /\ diag' = diag
              /\ UNCHANGED <<had_error, error_code>>
              /\ symtable_find(global_table', DeclaredKey).found
              /\ \A k \in Range(InOrder(global_table.root)) :
                   symtable_find(global_table', k) = symtable_find(global_table, k)]_vars

\* f() and f(x) are both in the table and a third declaration of f was
\* refused
C7_Witness ==
  /\ symtable_find(global_table, "f_0").found
  /\ symtable_find(global_table, "f_1").found
  /\ error_code = SEMANTIC_REDEFINITION
  /\ Len(diag) = 1

(***************************************************************************)
(* C8: when the first error of a run is an undefined local identifier (as  *)
(* the target of an assignment or as a factor of an expression), the       *)
(* process exits with status SEMANTIC_UNDEFINED.                           *)
(***************************************************************************)
C8_UndefinedIdentifier ==
  (/\ Ended
   /\ diag # <<>>
   /\ diag[1].message \in {"Undefined local variable", "Undefined variable"})
  => status = "exited" /\ result = SEMANTIC_UNDEFINED

(***************************************************************************)
(* C9: the step that ends the argument list of a call f(a1..an) writes     *)
(* CALL $f when key f_n is in the global table and latches nothing; when   *)
(* the key is not there it writes nothing and reports SEMANTIC_UNDEFINED,  *)
(* which is latched unless an error was latched before.  No other step but *)
(* the epilog writes a CALL, and SEMANTIC_ARG_COUNT is never latched.      *)
(***************************************************************************)
C9_CallArity ==
  /\ [](error_code # SEMANTIC_ARG_COUNT)
  /\ [][/\ (CallEnding /\ CompletedStep) =>
             IF symtable_find(global_table, CallKey).found
               THEN /\ out' = Append(out, "CALL $" \o TopFrame.name)
                    /\ diag' = diag
               ELSE /\ out' = out
                    /\ diag' = Append(diag, [code |-> SEMANTIC_UNDEFINED,
                                             message |-> "Function not defined"])
                    /\ had_error'
                    /\ error_code' = IF had_error THEN error_code
                                     ELSE SEMANTIC_UNDEFINED
        /\ \A l \in NewLines \cap CallLines :
             \/ TopFrame.fn = "parse_program" /\ l = "CALL $main"
             \/ /\ CallEnding
                /\ l = "CALL $" \o TopFrame.name
                /\ symtable_find(global_table, CallKey).found]_vars

\* f is declared, a call of f with another number of arguments has just been
\* refused and no call of f was written
C9_Witness ==
  /\ status = "running" /\ stack # <<>>
  /\ TopFrame.fn = "parse_assignment" /\ TopFrame.pc = 658 /\ TopFrame.name2 = "f"
  /\ \E n \in 0..2 : symtable_find(global_table, MakeKey("f", n)).found
  /\ diag = << [code |-> SEMANTIC_UNDEFINED, message |-> "Function not defined"] >>
  /\ error_code = SEMANTIC_UNDEFINED
  /\ "CALL $f" \notin Range(out)

(***************************************************************************)
(* C10: one local table per callable.  The step that accepts the header of *)
(* a function or getter leaves an empty local table, the one that accepts  *)
(* a setter a table holding its parameter alone; and every variable the    *)
(* local table holds is the parameter of the callable being compiled or    *)
(* was declared in it.                                                     *)
(***************************************************************************)
C10_OneLocalTable ==
  /\ [](status = "running" /\ local_table # NULL =>
          \A k \in Range(InOrder(local_table.root)) :
            \/ ("DEFVAR LF@" \o k) \in SinceLabel
            \/ k = "v" /\ "POPS LF@param0" \in SinceLabel)
  /\ [][(/\ Declaring /\ CompletedStep
         /\ ~symtable_find(global_table, DeclaredKey).found) =>
          /\ local_table' # NULL
          /\ InOrder(local_table'.root) =
               IF TopFrame.fn = "parse_setter" THEN <<TopFrame.name2>> ELSE <<>>]_vars

\* x is declared in two callables and no error is latched
C10_Witness ==
  /\ Cardinality({ i \in 1..Len(out) : out[i] = "DEFVAR LF@x" }) = 2
  /\ ~had_error
  /\ status = "running"

(***************************************************************************)
(* C11: an assignment statement whose target is a declared local or a      *)
(* global identifier latches no error for its target and goes on to its    *)
(* expression; when no error is latched it ends by writing exactly one     *)
(* POPS into the slot of the target (LF@ for a local, GF@ for a global),   *)
(* and the token that is current at its end, the one read after the        *)
(* expression, stays the current token: no token of the input is dropped.  *)
(***************************************************************************)
AssignmentBegins ==
  /\ AboutToStep
  /\ TopFrame.fn = "parse_assignment" /\ TopFrame.pc = 605
  /\ \/ current_token.type = "TOKEN_GLOBAL_IDENTIFIER"
     \/ /\ current_token.type = "TOKEN_IDENTIFIER"
        /\ symtable_find(local_table, current_token.value).found

AssignmentEnds ==
  /\ AboutToStep
  /\ TopFrame.fn = "parse_assignment" /\ TopFrame.pc \in {655, 658, 665}
  /\ ~had_error

C11_Assignment ==
  [][/\ (AssignmentBegins /\ gen' = gen /\ closed' = closed) =>
          /\ status' = "running"
          /\ diag' = diag
          /\ TopFrame'.fn = "parse_assignment"
          /\ TopFrame'.name = current_token.value
     /\ (AssignmentEnds /\ gen' = gen /\ closed' = closed) =>
          /\ status' = "running"
          /\ out' = Append(out, (IF TopFrame.is_global THEN "POPS GF@" ELSE "POPS LF@")
                                \o TopFrame.name)
          /\ current_token' = current_token]_vars

(***************************************************************************)
(* The target stack machine, for the code of one relational operation: the *)
(* operand code pushes a and b, then the lines generate_relational_op      *)
(* writes are run, one instruction per step.                               *)
(***************************************************************************)
\* the operands range over -MaxOperand..MaxOperand
MaxOperand == 2

Operands == (0 - MaxOperand)..MaxOperand

RelOperators ==
  { "TOKEN_EQUAL", "TOKEN_NOT_EQUAL", "TOKEN_LESS", "TOKEN_GREATER",
    "TOKEN_LESS_EQUAL", "TOKEN_GREATER_EQUAL" }

IntValue(n) == [type |-> "int", val |-> n]

BoolValue(b) == [type |-> "bool", val |-> b]

\* the frame slots the generated code names
Slots == {"LF@temp1", "LF@temp2"}

\* what parse_factor writes for an integer literal
PushInt(n) == "PUSHS int@" \o ToString(n)

\* the lines generate_relational_op writes for op
RelationalCode(op) ==
  generate_relational_op(
    [S([read |-> "kept", free |-> "ignore"]) EXCEPT !.status = "running",
                                                     !.out = <<>>], op).out

MachineStart(op, a, b) ==
  [op |-> op, a |-> a, b |-> b, code |-> <<>>, pc |-> 0, stack |-> <<>>,
   frame |-> [v \in Slots |-> NULL], fault |-> FALSE]

MachineInit ==
  /\ tab = symtable_init
  /\ ref = [k \in TableKeys |-> NULL]
  /\ tab_call = [op |-> "init", key |-> NULL_STR, data |-> NULL]
  /\ tab_ret = TRUE
  /\ tab_heap = [malloc |-> Blocks("table", 1), free |-> NoBlocks]
  /\ ParserIdle
  /\ scanner = NULL
  /\ machine \in { MachineStart(op, a, b) : op \in RelOperators, a \in Operands,
                                            b \in Operands }

\* the instruction the machine is at, NULL_STR when there is none
Instruction ==
  IF machine.pc \in 1..Len(machine.code) /\ ~machine.fault
    THEN machine.code[machine.pc] ELSE NULL_STR

Pop(n) == SubSeq(machine.stack, 1, Len(machine.stack) - n)

StackTop(i) == machine.stack[Len(machine.stack) + 1 - i]

Fault == machine' = [machine EXCEPT !.fault = TRUE]

\* the compiler has written the code of `a op b`
MachineLoad ==
  /\ machine.pc = 0
  /\ machine' = [machine EXCEPT
       !.code = <<PushInt(machine.a), PushInt(machine.b)>> \o RelationalCode(machine.op),
       !.pc = 1]
  /\ UNCHANGED <<tvars, pvars, gvars, svars>>

\* PUSHS <symb>
MachinePUSHS ==
  /\ \/ \E n \in Operands :
          /\ Instruction = PushInt(n)
          /\ machine' = [machine EXCEPT !.stack = Append(@, IntValue(n)), !.pc = @ + 1]
     \/ \E v \in Slots :
          /\ Instruction = "PUSHS " \o v
          /\ IF machine.frame[v] = NULL THEN Fault
             ELSE machine' = [machine EXCEPT !.stack = Append(@, machine.frame[v]),
                                             !.pc = @ + 1]
  /\ UNCHANGED <<tvars, pvars, gvars, svars>>

\* POPS <var>
MachinePOPS ==
  /\ \E v \in Slots :
       /\ Instruction = "POPS " \o v
       /\ IF machine.stack = <<>> THEN Fault
          ELSE machine' = [machine EXCEPT !.frame[v] = StackTop(1), !.stack = Pop(1),
                                          !.pc = @ + 1]
  /\ UNCHANGED <<tvars, pvars, gvars, svars>>

\* EQS and LTS take symb2 from the top of the stack and symb1 from below it
MachineEQS ==
  /\ Instruction = "EQS"
  /\ IF Len(machine.stack) < 2 \/ StackTop(1).type # StackTop(2).type THEN Fault
     ELSE machine' = [machine EXCEPT
            !.stack = Append(Pop(2), BoolValue(StackTop(2).val = StackTop(1).val)),
            !.pc = @ + 1]
  /\ UNCHANGED <<tvars, pvars, gvars, svars>>

MachineLTS ==
  /\ Instruction = "LTS"
  /\ IF \/ Len(machine.stack) < 2
        \/ StackTop(1).type # "int" \/ StackTop(2).type # "int" THEN Fault
     ELSE machine' = [machine EXCEPT
            !.stack = Append(Pop(2), BoolValue(StackTop(2).val < StackTop(1).val)),
            !.pc = @ + 1]
  /\ UNCHANGED <<tvars, pvars, gvars, svars>>

MachineNOTS ==
  /\ Instruction = "NOTS"
  /\ IF machine.stack = <<>> \/ StackTop(1).type # "bool" THEN Fault
     ELSE machine' = [machine EXCEPT
            !.stack = Append(Pop(1), BoolValue(~StackTop(1).val)),
            !.pc = @ + 1]
  /\ UNCHANGED <<tvars, pvars, gvars, svars>>

MachineNext ==
  \/ MachineLoad
  \/ MachinePUSHS
  \/ MachinePOPS
  \/ MachineEQS
  \/ MachineLTS
  \/ MachineNOTS

MachineSpec == MachineInit /\ [][MachineNext]_vars

\* the code has run to its end
MachineDone == machine.pc > Len(machine.code) /\ machine.pc > 0

\* the value of `a op b`
Relation(op, a, b) ==
  CASE op = "TOKEN_EQUAL"         -> a = b
    [] op = "TOKEN_NOT_EQUAL"     -> a # b
    [] op = "TOKEN_LESS"          -> a < b
    [] op = "TOKEN_GREATER"       -> a > b
    [] op = "TOKEN_LESS_EQUAL"    -> a <= b
    [] op = "TOKEN_GREATER_EQUAL" -> a >= b

(***************************************************************************)
(* C12: for each relational operator, the code emitted for `a op b`, run   *)
(* after the operand code has pushed a and then b, never faults and ends   *)
(* with exactly one value on the stack, the boolean a op b.                *)
(***************************************************************************)
C12_RelationalCode ==
  /\ ~machine.fault
  /\ MachineDone =>
       machine.stack = << BoolValue(Relation(machine.op, machine.a, machine.b)) >>

(***************************************************************************)
(* The code of an arithmetic expression, computed from its tokens by the   *)
(* operator-stack method: an operator waits on a stack until an operator   *)
(* that does not bind tighter arrives, or the expression ends.             *)
(***************************************************************************)
Precedence(type) == IF type \in {"TOKEN_MULTIPLY", "TOKEN_DIVIDE"} THEN 2 ELSE 1

Opcode(type) ==
  CASE type = "TOKEN_PLUS"     -> "ADDS"
    [] type = "TOKEN_MINUS"    -> "SUBS"
    [] type = "TOKEN_MULTIPLY" -> "MULS"
    [] type = "TOKEN_DIVIDE"   -> "DIVS"

\* the operators on top of ops that bind at least as tight as p leave it
RECURSIVE Unstack(_, _)
Unstack(ops, p) ==
  IF ops = <<>> \/ Precedence(ops[Len(ops)]) < p
    THEN [ops |-> ops, code |-> <<>>]
    ELSE LET r == Unstack(SubSeq(ops, 1, Len(ops) - 1), p)
         IN  [ops |-> r.ops, code |-> <<Opcode(ops[Len(ops)])>> \o r.code]

RECURSIVE Postfix(_, _, _)
Postfix(tokens, ops, code) ==
  IF tokens = <<>> THEN code \o Unstack(ops, 0).code
  ELSE LET t == Head(tokens)
       IN  IF t.type = "TOKEN_INT_LITERAL"
             THEN Postfix(Tail(tokens), ops, Append(code, "PUSHS int@" \o t.value))
             ELSE LET u == Unstack(ops, Precedence(t.type))
                  IN  Postfix(Tail(tokens), Append(u.ops, t.type), code \o u.code)

\* the code of the expression of the line `return e`
ExpressionCode(line) == Postfix(SubSeq(line, 2, Len(line) - 1), <<>>, <<>>)

\* the last n lines of the output
LastLines(n) == IF n > Len(out) THEN <<>> ELSE SubSeq(out, Len(out) - n + 1, Len(out))

\* parse_return has parsed the expression of the line written last
ReturnParsed ==
  /\ status = "running" /\ stack # <<>>
  /\ TopFrame.fn = "parse_return" /\ TopFrame.pc = 800
  /\ gen.last \in ArithmeticLines

(***************************************************************************)
(* C13: instruction emission follows operator precedence.  When the        *)
(* expression of `return e` is parsed, e an arithmetic expression over     *)
(* literals, the whole line is consumed with no error, and the lines       *)
(* written for it are its operands and operators in postfix order: each    *)
(* opcode after the code of both its operands, `*` and `/` before the `+`  *)
(* or `-` that takes their result, equal precedence left to right.  For    *)
(* `2 + 3 * 4` they are PUSHS 2, PUSHS 3, PUSHS 4, MULS, ADDS.             *)
(***************************************************************************)
C13_Precedence ==
  ReturnParsed =>
    /\ ~had_error
    /\ current_token.type = "TOKEN_EOL"
    /\ input = <<>> =>
         /\ LastLines(Len(ExpressionCode(gen.last))) = ExpressionCode(gen.last)
         /\ gen.last = Line(<<KwReturn, IntLit("2"), Plus, IntLit("3"), Star, IntLit("4")>>)
              => LastLines(5) = <<"PUSHS int@2", "PUSHS int@3", "PUSHS int@4",
                                  "MULS", "ADDS">>

\* `return 1 - 4 / 2 + 2 * 3` is parsed and its code is written
C13_Witness ==
  /\ ReturnParsed /\ input = <<>>
  /\ gen.last = Line(<<KwReturn, IntLit("1"), Minus, IntLit("4"), Slash, IntLit("2"),
                       Plus, IntLit("2"), Star, IntLit("3")>>)
  /\ LastLines(9) = <<"PUSHS int@1", "PUSHS int@4", "PUSHS int@2", "DIVS", "SUBS",
                      "PUSHS int@2", "PUSHS int@3", "MULS", "ADDS">>

\* the LABEL instructions the compiler can have written: the entries of the
\* callables and the labels generate_label has numbered so far
LabelLines ==
  FunctionLabels \cup { "LABEL label_" \o ToString(n) : n \in 0..label_counter }

\* the compiler ended and accepted the program
Accepted == status = "exited" /\ ~had_error /\ result = SUCCESS

(***************************************************************************)
(* C14: labels are unique within a run.  In the output of an accepted      *)
(* program no two LABEL instructions declare the same name, be it a        *)
(* generated label_<n> or the entry label $name of a callable.             *)
(***************************************************************************)
C14_UniqueLabels ==
  Accepted =>
    \A i, j \in 1..Len(out) :
      (i < j /\ out[i] \in LabelLines) => out[i] # out[j]

\* the tree with the record of key k replaced by d and nothing else changed
RECURSIVE WithRecord(_, _, _)
WithRecord(t, k, d) ==
  IF t = NULL THEN NULL
  ELSE [t EXCEPT !.data  = IF t.key = k THEN d ELSE @,
                 !.left  = WithRecord(t.left, k, d),
                 !.right = WithRecord(t.right, k, d)]

\* the keys of the table with their records
Entries(table) == { <<n.key, n.data>> : n \in Nodes(table.root) }

(***************************************************************************)
(* C15: insert is an upsert.  A symtable_insert with a key the table       *)
(* already holds returns true and puts the new record in the node of that  *)
(* key; no other record, no key, no link and no cached height of the tree  *)
(* changes.                                                                *)
(***************************************************************************)
C15_Upsert ==
  [][(tab_call'.op = "insert" /\ symtable_find(tab, tab_call'.key).found) =>
       /\ tab_ret' = TRUE
       /\ tab'.root = WithRecord(tab.root, tab_call'.key, tab_call'.data)
       /\ symtable_find(tab', tab_call'.key) = [found |-> TRUE, data |-> tab_call'.data]
       /\ InOrder(tab'.root) = InOrder(tab.root)]_vars

\* the last call was an insert of the key at the root of a tree of height 3:
\* a node made by the call would have height 1, or 2 after a rotation, so
\* the key was there before and the record at the root is the new one
C15_Witness ==
  /\ tab_call.op = "insert" /\ tab_ret
  /\ tab.root # NULL /\ tab.root.height = 3
  /\ tab.root.key = tab_call.key /\ tab.root.data = tab_call.data
  /\ tab.root.data = symdata_create_func("IFJ_SYMBOL_FUNC", 1)

(***************************************************************************)
(* C16: symtable_delete(k) returns true iff k was in the table right       *)
(* before the call; then k and its record are gone and every other key     *)
(* keeps its record.  When k is absent, or the table is empty, it returns  *)
(* false and the tree, its cached heights included, is left as it was.     *)
(***************************************************************************)
C16_Delete ==
  [][tab_call'.op = "delete" =>
       LET k   == tab_call'.key
           was == symtable_find(tab, k).found
       IN  /\ tab_ret' = was
           /\ was => Entries(tab') = { e \in Entries(tab) : e[1] # k }
           /\ ~was => tab' = tab]_vars

\* a delete removed a key and left a tree of height 3
C16_Witness ==
  /\ tab_call.op = "delete" /\ tab_ret
  /\ tab.root # NULL /\ tab.root.height = 3
  /\ ~symtable_find(tab, tab_call.key).found

(***************************************************************************)
(* The scanner (scanner.c) over a source text.  A character is a string of *)
(* one character; the text is the sequence of the characters of stdin and  *)
(* source.pos counts those fgetc has taken.  current_char is a char that   *)
(* is compared with EOF: the model is of a build whose char is signed, and *)
(* of texts without the byte 255.                                          *)
(***************************************************************************)
\* '\0'
NUL == "<NUL>"

LF == "\n"

Digits == {"0", "1", "2", "3", "4", "5", "6", "7", "8", "9"}

LowerCase ==
  {"a", "b", "c", "d", "e", "f", "g", "h", "i", "j", "k", "l", "m",
   "n", "o", "p", "q", "r", "s", "t", "u", "v", "w", "x", "y", "z"}

UpperCase ==
  {"A", "B", "C", "D", "E", "F", "G", "H", "I", "J", "K", "L", "M",
   "N", "O", "P", "Q", "R", "S", "T", "U", "V", "W", "X", "Y", "Z"}

isspace(c) == c \in {" ", "\t", "\n", "\r", "\f"}

isalpha(c) == c \in LowerCase \cup UpperCase

isdigit(c) == c \in Digits

isalnum(c) == isalpha(c) \/ isdigit(c)

isxdigit(c) ==
  c \in Digits \cup {"a", "b", "c", "d", "e", "f", "A", "B", "C", "D", "E", "F"}

\* the string of a buffer of characters, as strcpy copies it: up to the
\* first '\0'
RECURSIVE CString(_)
CString(buffer) ==
  IF buffer = <<>> \/ Head(buffer) = NUL THEN ""
  ELSE Head(buffer) \o CString(Tail(buffer))

\* the end of the stream is reached: fgetc returns EOF
AtEnd(sc) == sc.pos >= Len(sc.text)

advance(sc) ==
  IF sc.is_eof_reached THEN sc
  ELSE IF AtEnd(sc) THEN [sc EXCEPT !.is_eof_reached = TRUE, !.current_char = NUL]
  ELSE LET c == sc.text[sc.pos + 1]
       IN  [sc EXCEPT !.pos = @ + 1,
                      !.current_char = c,
                      !.line = IF c = LF THEN @ + 1 ELSE @,
                      !.column = IF c = LF THEN 0 ELSE @ + 1]

peek(sc) ==
  IF sc.is_eof_reached \/ AtEnd(sc) THEN NUL ELSE sc.text[sc.pos + 1]

peek2(sc) ==
  IF sc.is_eof_reached \/ sc.pos + 2 > Len(sc.text) THEN NUL ELSE sc.text[sc.pos + 2]

scanner_init(text) ==
  advance([text |-> text, pos |-> 0, current_char |-> NUL, line |-> 1,
           column |-> 0, is_eof_reached |-> FALSE])

\* skip_comment, the loop at lines 143-155
RECURSIVE skip_comment_loop(_, _)
skip_comment_loop(sc, nesting) ==
  IF ~(nesting > 0 /\ ~sc.is_eof_reached) THEN sc
  ELSE IF sc.current_char = "/" /\ peek(sc) = "*"
    THEN skip_comment_loop(advance(advance(sc)), nesting + 1)
  ELSE IF sc.current_char = "*" /\ peek(sc) = "/"
    THEN skip_comment_loop(advance(advance(sc)), nesting - 1)
  ELSE skip_comment_loop(advance(sc), nesting)

\* a skip_comment that does not count the nesting
RECURSIVE skip_comment_flat_loop(_)
skip_comment_flat_loop(sc) ==
  IF sc.is_eof_reached THEN sc
  ELSE IF sc.current_char = "*" /\ peek(sc) = "/" THEN advance(advance(sc))
  ELSE skip_comment_flat_loop(advance(sc))

skip_comment_flat(sc) == skip_comment_flat_loop(advance(advance(sc)))

skip_comment(sc) == skip_comment_loop(advance(advance(sc)), 1)

\* skip_whitespace, the loop at lines 108-110
RECURSIVE skip_blanks(_)
skip_blanks(sc) ==
  IF isspace(sc.current_char) /\ sc.current_char # LF
    THEN skip_blanks(advance(sc)) ELSE sc

\* skip_whitespace, the loop at lines 116-118
RECURSIVE skip_line(_)
skip_line(sc) ==
  IF sc.current_char # LF /\ ~sc.is_eof_reached THEN skip_line(advance(sc)) ELSE sc

\* a skip_whitespace that leaves the line break that ends a line comment
RECURSIVE skip_whitespace_keeps_line_break(_)
skip_whitespace_keeps_line_break(sc) ==
  LET s1 == skip_blanks(sc)
  IN  IF s1.current_char = "/"
        THEN IF peek(s1) = "/" THEN skip_line(s1)
             ELSE IF peek(s1) = "*"
               THEN skip_whitespace_keeps_line_break(skip_comment(s1))
             ELSE s1
        ELSE s1

RECURSIVE skip_whitespace(_)
skip_whitespace(sc) ==
  LET s1 == skip_blanks(sc)
  IN  IF s1.current_char = "/"
        THEN IF peek(s1) = "/"
               THEN LET s2 == skip_line(s1)
                    IN  skip_whitespace(IF s2.current_char = LF THEN advance(s2) ELSE s2)
             ELSE IF peek(s1) = "*" THEN skip_whitespace(skip_comment(s1))
             ELSE s1
        ELSE s1

\* the table keywords[] (the entry that ends it left out)
keywords ==
  << <<"class", "TOKEN_CLASS">>, <<"if", "TOKEN_IF">>, <<"else", "TOKEN_ELSE">>,
     <<"is", "TOKEN_IS">>, <<"null", "TOKEN_NULL">>, <<"return", "TOKEN_RETURN">>,
     <<"var", "TOKEN_VAR">>, <<"while", "TOKEN_WHILE">>,
     <<"Ifj", "TOKEN_IFJ_NAMESPACE">>, <<"static", "TOKEN_STATIC">>,
     <<"import", "TOKEN_IMPORT">>, <<"for", "TOKEN_FOR">>, <<"Num", "TOKEN_NUM">>,
     <<"String", "TOKEN_STRING_TYPE">>, <<"Null", "TOKEN_NULL_TYPE">> >>

is_keyword(str) == \E i \in 1..Len(keywords) : keywords[i][1] = str

get_keyword_type(str) ==
  IF is_keyword(str)
    THEN keywords[CHOOSE i \in 1..Len(keywords) : keywords[i][1] = str][2]
    ELSE "TOKEN_IDENTIFIER"

\* create_token of scanner.c: the token with a copy of the value
scanner_create_token(type, value, line, column) ==
  [type |-> type, value |-> value, line |-> line, column |-> column]

\* the loops of read_identifier and read_number: the characters of a class
\* are taken into the buffer, which holds 255 of them
RECURSIVE read_while(_, _, _)
read_while(sc, buffer, class) ==
  IF sc.current_char \in class
    THEN read_while(advance(sc),
                    IF Len(buffer) < 255 THEN Append(buffer, sc.current_char) ELSE buffer,
                    class)
    ELSE [sc |-> sc, buffer |-> buffer]

\* isalnum(c) || c == '_'
IdentifierChars == LowerCase \cup UpperCase \cup Digits \cup {"_"}

\* isxdigit(c)
HexDigits == { c \in LowerCase \cup UpperCase \cup Digits : isxdigit(c) }

\* read_identifier with the test of line 225 on the first character alone
read_identifier_one_underscore(sc) ==
  IF sc.current_char = "_"
    THEN LET r == read_while(sc, <<>>, IdentifierChars)
         IN  [token |-> scanner_create_token("TOKEN_GLOBAL_IDENTIFIER", CString(r.buffer),
                                             sc.line, sc.column),
              sc |-> r.sc]
    ELSE LET r   == read_while(sc, <<>>, IdentifierChars)
             str == CString(r.buffer)
         IN  [token |-> scanner_create_token(get_keyword_type(str), str,
                                             sc.line, sc.column),
              sc |-> r.sc]

read_identifier(sc) ==
  IF sc.current_char = "_" /\ peek(sc) = "_"
    THEN LET r == read_while(advance(advance(sc)),
                             <<sc.current_char, advance(sc).current_char>>,
                             IdentifierChars)
         IN  [token |-> scanner_create_token("TOKEN_GLOBAL_IDENTIFIER", CString(r.buffer),
                                             sc.line, sc.column),
              sc |-> r.sc]
    ELSE LET r   == read_while(sc, <<>>, IdentifierChars)
             str == CString(r.buffer)
         IN  [token |-> scanner_create_token(get_keyword_type(str), str,
                                             sc.line, sc.column),
              sc |-> r.sc]

\* the buffer takes the current character (if it has room) and the scanner
\* advances
Take(r) ==
  [sc |-> advance(r.sc),
   buffer |-> IF Len(r.buffer) < 255 THEN Append(r.buffer, r.sc.current_char)
              ELSE r.buffer]

read_number(sc) ==
  IF sc.current_char = "0" /\ peek(sc) \in {"x", "X"}
    THEN LET r == read_while(advance(advance(sc)),
                             <<sc.current_char, advance(sc).current_char>>, HexDigits)
         IN  [token |-> scanner_create_token("TOKEN_INT_LITERAL", CString(r.buffer),
                                             sc.line, sc.column),
              sc |-> r.sc]
    ELSE LET r1 == read_while(sc, <<>>, Digits)
             point == r1.sc.current_char = "."
             r2 == IF point
                     THEN LET t == Take(r1) IN read_while(t.sc, t.buffer, Digits)
                     ELSE r1
             exponent == r2.sc.current_char \in {"e", "E"}
             r3 == IF exponent
                     THEN LET t == Take(r2)
                              u == IF t.sc.current_char \in {"+", "-"} THEN Take(t) ELSE t
                          IN  read_while(u.sc, u.buffer, Digits)
                     ELSE r2
         IN  [token |-> scanner_create_token(
                          IF point \/ exponent THEN "TOKEN_FLOAT_LITERAL"
                          ELSE "TOKEN_INT_LITERAL",
                          CString(r3.buffer), sc.line, sc.column),
              sc |-> r3.sc]

\* strtol(hex, NULL, 16) for a buffer of at most two hexadecimal digits
HexDigitValue(c) ==
  CASE c \in Digits -> CHOOSE n \in 0..9 : ToString(n) = c
    [] c \in {"a", "A"} -> 10 [] c \in {"b", "B"} -> 11 [] c \in {"c", "C"} -> 12
    [] c \in {"d", "D"} -> 13 [] c \in {"e", "E"} -> 14 [] c \in {"f", "F"} -> 15

RECURSIVE strtol16(_)
strtol16(hex) ==
  IF hex = <<>> THEN 0
  ELSE 16 * strtol16(SubSeq(hex, 1, Len(hex) - 1)) + HexDigitValue(hex[Len(hex)])

\* (char)n: the character with the code n; the codes that have no name
\* here are written <n>
Chr(n) ==
  CASE n = 0 -> NUL [] n = 10 -> LF [] n = 32 -> " " [] n = 34 -> "\""
    [] n = 65 -> "A" [] n = 97 -> "a"
    [] OTHER -> "<" \o ToString(n) \o ">"

\* read_escape_sequence without the table of lines 354-358: the character
\* after the backslash stands for itself
read_escape_sequence_literal(sc) ==
  LET s1 == advance(sc)
  IN  [char |-> s1.current_char, sc |-> advance(s1)]

read_escape_sequence(sc) ==
  LET s1 == advance(sc)
      c  == s1.current_char
  IN  CASE c = "n"  -> [char |-> LF, sc |-> advance(s1)]
        [] c = "r"  -> [char |-> "\r", sc |-> advance(s1)]
        [] c = "t"  -> [char |-> "\t", sc |-> advance(s1)]
        [] c = "\\" -> [char |-> "\\", sc |-> advance(s1)]
        [] c = "\"" -> [char |-> "\"", sc |-> advance(s1)]
        [] c = "x"  ->
             LET s2 == advance(s1)
                 r  == IF ~isxdigit(s2.current_char) THEN [sc |-> s2, hex |-> <<>>]
                       ELSE LET s3 == advance(s2)
                            IN  IF ~isxdigit(s3.current_char)
                                  THEN [sc |-> s3, hex |-> <<s2.current_char>>]
                                  ELSE [sc |-> advance(s3),
                                        hex |-> <<s2.current_char, s3.current_char>>]
             IN  [char |-> Chr(strtol16(r.hex)), sc |-> r.sc]
        [] OTHER -> [char |-> c, sc |-> advance(s1)]

\* the buffer of read_string holds 1023 characters
Put(buffer, c) == IF Len(buffer) < 1023 THEN Append(buffer, c) ELSE buffer

\* read_string, the loop at lines 407-420
RECURSIVE read_multiline(_, _)
read_multiline(sc, buffer) ==
  IF sc.is_eof_reached THEN [sc |-> sc, buffer |-> buffer]
  ELSE IF sc.current_char = "\"" /\ peek(sc) = "\"" /\ peek2(sc) = "\""
    THEN [sc |-> advance(advance(advance(sc))), buffer |-> buffer]
  ELSE read_multiline(advance(sc), Put(buffer, sc.current_char))

\* read_string, the loop at lines 423-438
RECURSIVE read_regular(_, _, _)
read_regular(sc, buffer, quote_char) ==
  IF ~(sc.current_char # quote_char /\ ~sc.is_eof_reached)
    THEN [sc |-> sc, buffer |-> buffer]
  ELSE IF sc.current_char = "\\"
    THEN LET e == read_escape_sequence(sc)
         IN  read_regular(e.sc, Put(buffer, e.char), quote_char)
  ELSE IF sc.current_char = LF THEN [sc |-> sc, buffer |-> buffer]
  ELSE read_regular(advance(sc), Put(buffer, sc.current_char), quote_char)

read_string(sc) ==
  LET quote_char   == sc.current_char
      is_multiline == sc.current_char = "\"" /\ peek(sc) = "\"" /\ peek2(sc) = "\""
  IN  IF is_multiline
        THEN LET r == read_multiline(advance(advance(sc)), <<>>)
             IN  [token |-> scanner_create_token("TOKEN_MULTILINE_STRING_LITERAL",
                                                 CString(r.buffer), sc.line, sc.column),
                  sc |-> r.sc]
        ELSE LET r == read_regular(advance(sc), <<>>, quote_char)
             IN  [token |-> scanner_create_token("TOKEN_STRING_LITERAL",
                                                 CString(r.buffer), sc.line, sc.column),
                  sc |-> IF r.sc.current_char = quote_char THEN advance(r.sc) ELSE r.sc]

\* the tokens of one character, and those of two that begin with one of
\* them (lines 516-612)
Punctuation(sc, current) ==
  LET s1 == advance(sc)
      one(type) == [type |-> type, sc |-> s1]
      two(type, otherwise) ==
        IF s1.current_char = "=" THEN [type |-> type, sc |-> advance(s1)]
        ELSE [type |-> otherwise, sc |-> s1]
  IN  CASE current = LF  -> one("TOKEN_EOL")
        [] current = "+" -> one("TOKEN_PLUS")
        [] current = "-" -> one("TOKEN_MINUS")
        [] current = "*" -> one("TOKEN_MULTIPLY")
        [] current = "/" -> one("TOKEN_DIVIDE")
        [] current = "=" -> two("TOKEN_EQUAL", "TOKEN_ASSIGN")
        [] current = "<" -> two("TOKEN_LESS_EQUAL", "TOKEN_LESS")
        [] current = ">" -> two("TOKEN_GREATER_EQUAL", "TOKEN_GREATER")
        [] current = "!" -> two("TOKEN_NOT_EQUAL", "TOKEN_NOT")
        [] current = "(" -> one("TOKEN_LEFT_PAREN")
        [] current = ")" -> one("TOKEN_RIGHT_PAREN")
        [] current = "{" -> one("TOKEN_LEFT_BRACE")
        [] current = "}" -> one("TOKEN_RIGHT_BRACE")
        [] current = "," -> one("TOKEN_COMMA")
        [] current = "." ->
             IF s1.current_char = "." /\ peek(s1) = "."
               THEN [type |-> "TOKEN_RANGE_INCLUSIVE", sc |-> advance(advance(s1))]
             ELSE IF s1.current_char = "."
               THEN [type |-> "TOKEN_RANGE_EXCLUSIVE", sc |-> advance(s1)]
             ELSE one("TOKEN_DOT")
        [] current = ":" -> one("TOKEN_COLON")
        [] current = "?" -> one("TOKEN_QUESTION")
        [] current = "&" /\ peek(sc) = "&" ->
             [type |-> "TOKEN_AND", sc |-> advance(s1)]
        [] current = "|" /\ peek(sc) = "|" ->
             [type |-> "TOKEN_OR", sc |-> advance(s1)]
        [] OTHER -> [type |-> "TOKEN_ERROR", sc |-> s1]

\* get_next_token from line 495 on with an error token that takes the
\* character after the unknown one with it
Lexeme_error_swallows(s1) ==
  LET current == s1.current_char
  IN  IF isalpha(current) \/ current = "_" THEN read_identifier(s1)
      ELSE IF isdigit(current) THEN read_number(s1)
      ELSE IF current = "\"" THEN read_string(s1)
      ELSE LET p == Punctuation(s1, current)
           IN  [token |-> scanner_create_token(
                            p.type,
                            IF p.type = "TOKEN_ERROR" THEN CString(<<current>>)
                            ELSE NULL_STR,
                            s1.line, s1.column),
                sc |-> IF p.type = "TOKEN_ERROR" THEN advance(p.sc) ELSE p.sc]

\* get_next_token from line 495 on with an error token that leaves the
\* unknown character in the input
Lexeme_error_stays(s1) ==
  LET current == s1.current_char
  IN  IF isalpha(current) \/ current = "_" THEN read_identifier(s1)
      ELSE IF isdigit(current) THEN read_number(s1)
      ELSE IF current = "\"" THEN read_string(s1)
      ELSE LET p == Punctuation(s1, current)
           IN  [token |-> scanner_create_token(
                            p.type,
                            IF p.type = "TOKEN_ERROR" THEN CString(<<current>>)
                            ELSE NULL_STR,
                            s1.line, s1.column),
                sc |-> IF p.type = "TOKEN_ERROR" THEN s1 ELSE p.sc]

\* get_next_token from line 495 on: the token that begins at the current
\* character
Lexeme(s1) ==
  LET current == s1.current_char
  IN  IF isalpha(current) \/ current = "_" THEN read_identifier(s1)
      ELSE IF isdigit(current) THEN read_number(s1)
      ELSE IF current = "\"" THEN read_string(s1)
      ELSE LET p == Punctuation(s1, current)
           IN  [token |-> scanner_create_token(
                            p.type,
                            IF p.type = "TOKEN_ERROR" THEN CString(<<current>>)
                            ELSE NULL_STR,
                            s1.line, s1.column),
                sc |-> p.sc]

\* a get_next_token that sets the column back to 0 once the end is reached
scanner_get_next_token_resets_column(sc) ==
  IF sc.is_eof_reached
    THEN [token |-> scanner_create_token("TOKEN_EOF", NULL_STR, sc.line, 0),
          sc |-> [sc EXCEPT !.column = 0]]
  ELSE LET s1 == skip_whitespace(sc)
       IN  IF s1.is_eof_reached
             THEN [token |-> scanner_create_token("TOKEN_EOF", NULL_STR, s1.line, s1.column),
                   sc |-> s1]
             ELSE Lexeme(s1)

\* get_next_token of scanner.c
scanner_get_next_token(sc) ==
  IF sc.is_eof_reached
    THEN [token |-> scanner_create_token("TOKEN_EOF", NULL_STR, sc.line, sc.column),
          sc |-> sc]
  ELSE LET s1 == skip_whitespace(sc)
       IN  IF s1.is_eof_reached
             THEN [token |-> scanner_create_token("TOKEN_EOF", NULL_STR, s1.line, s1.column),
                   sc |-> s1]
             ELSE Lexeme(s1)

(***************************************************************************)
(* The scanner run: get_next_token is called again and again on a source   *)
(* text, MaxEofCalls times from the end of the text on.  The texts are all *)
(* the texts of at most MaxLen characters of Alphabet, and a few longer    *)
(* ones.                                                                   *)
(***************************************************************************)
MaxLen == 4
MaxEofCalls == 3

Alphabet == {"/", "*", LF, " ", "c", "1", "\""}

\* the texts of exactly n characters
RECURSIVE TextsOfLength(_)
TextsOfLength(n) ==
  IF n = 0 THEN { <<>> }
  ELSE { Append(t, c) : t \in TextsOfLength(n - 1), c \in Alphabet }

LineCommentText ==
  << "/", "/", " ", "c", LF,
     "1", "2", "3", ".", "5", "e", "+", "2", LF,
     "v", "a", "r", " ", "_", "_", "x", LF >>

NestedCommentText ==
  << "/", "*", " ", "a", " ", "/", "*", " ", "b", " ", "*", "/", " ", "c", " ",
     "*", "/" >>

LongerTexts ==
  { LineCommentText,
    NestedCommentText,
    NestedCommentText \o <<LF, "x">>,
    SubSeq(NestedCommentText, 1, 12),
    << "v", "a", "r", " ", "x", " ", "/", "/", " ", "c", LF, "x", " ", "=", " ", "1", LF >>,
    << "v", "a", "r", " ", "x", " ", LF, "x", " ", "=", " ", "1", LF >> }

\* the texts of exactly n characters of an alphabet
RECURSIVE TextsOver(_, _)
TextsOver(alphabet, n) ==
  IF n = 0 THEN { <<>> }
  ELSE { Append(t, c) : t \in TextsOver(alphabet, n - 1), c \in alphabet }

\* strings and their escapes
StringAlphabet == {"\"", "\\", "n", "a", LF}

\* identifiers, keywords (if, is) and numbers
WordAlphabet == {"_", "i", "f", "s", "1"}

\* characters that start no token, and some that do
ErrorAlphabet == {"&", "|", "#", "a", " "}

\* three double quotes
TripleQuote == <<"\"", "\"", "\"">>

MultilineText == TripleQuote \o <<"r", "a", "w", LF, "t", "e", "x", "t">> \o TripleQuote

StringTexts ==
  { MultilineText,
    MultilineText \o <<"x">>,
    TripleQuote \o TripleQuote,
    TripleQuote \o TripleQuote \o <<LF>>,
    TripleQuote \o <<"a", "\\", "n", "\"", "b">> \o TripleQuote \o <<" ", "1">>,
    TripleQuote \o <<"a", "\"", "\"">>,
    <<"\"", "a", "\\", "n", "b", "\"">>,
    <<"\"", "\\", "n", "\\", "r", "\\", "t", "\\", "\\", "\\", "\"", "\"", "x">>,
    <<"\"", "a", "b", LF, "c", "\"">> }

SourceTexts ==
  UNION { TextsOfLength(n) \cup TextsOver(StringAlphabet, n)
            \cup TextsOver(WordAlphabet, n) \cup TextsOver(ErrorAlphabet, n)
          : n \in 0..MaxLen }
    \cup LongerTexts \cup StringTexts

ScannerInit ==
  /\ tab = symtable_init
  /\ ref = [k \in TableKeys |-> NULL]
  /\ tab_call = [op |-> "init", key |-> NULL_STR, data |-> NULL]
  /\ tab_ret = TRUE
  /\ tab_heap = [malloc |-> Blocks("table", 1), free |-> NoBlocks]
  /\ ParserIdle
  /\ machine = NULL
  /\ scanner \in { [sc |-> scanner_init(text), returned |-> <<>>] : text \in SourceTexts }

\* the calls so far that returned TOKEN_EOF
EofCalls == Cardinality({ i \in 1..Len(scanner.returned) :
                            scanner.returned[i].type = "TOKEN_EOF" })

\* one call of get_next_token
GetNextToken ==
  /\ EofCalls < MaxEofCalls
  /\ LET r == scanner_get_next_token(scanner.sc)
     IN  scanner' = [sc |-> r.sc, returned |-> Append(scanner.returned, r.token)]
  /\ UNCHANGED <<tvars, pvars, gvars, mvars>>

ScannerNext == GetNextToken

ScannerSpec == ScannerInit /\ [][ScannerNext]_vars

\* the tokens of a text, up to the first TOKEN_EOF
RECURSIVE TokensFrom(_)
TokensFrom(sc) ==
  LET r == scanner_get_next_token(sc)
  IN  IF r.token.type = "TOKEN_EOF" THEN <<r.token>>
      ELSE <<r.token>> \o TokensFrom(r.sc)

Tokens(text) == TokensFrom(scanner_init(text))

Kinds(tokens) == [i \in 1..Len(tokens) |-> tokens[i].type]

\* a token without its place in the text
Lexemes(tokens) ==
  [i \in 1..Len(tokens) |-> [type |-> tokens[i].type, value |-> tokens[i].value]]

\* the end of the text has been reported
EofReturned == EofCalls > 0

\* the tokens returned up to the first TOKEN_EOF
FirstRun ==
  LET eofs == { i \in 1..Len(scanner.returned) : scanner.returned[i].type = "TOKEN_EOF" }
  IN  SubSeq(scanner.returned, 1, CHOOSE i \in eofs : \A j \in eofs : i <= j)

(***************************************************************************)
(* C17: the end of input is sticky.  Once get_next_token has returned      *)
(* TOKEN_EOF, every later call returns TOKEN_EOF, and the line, the column *)
(* and the lookahead character of the scanner no longer change.            *)
(***************************************************************************)
C17_EofSticky ==
  [][EofReturned =>
       /\ scanner'.returned[Len(scanner'.returned)].type = "TOKEN_EOF"
       /\ scanner'.sc.line = scanner.sc.line
       /\ scanner'.sc.column = scanner.sc.column
       /\ scanner'.sc.current_char = scanner.sc.current_char
       /\ scanner'.sc.is_eof_reached]_vars

\* tokens were returned, then TOKEN_EOF on each of MaxEofCalls calls, the
\* scanner being past the first line
C17_Witness ==
  /\ EofCalls = MaxEofCalls
  /\ Len(scanner.returned) > MaxEofCalls + 1
  /\ scanner.sc.line > 1 /\ scanner.sc.column > 0

\* the scanner is at the two slashes that begin a line comment
AtLineComment(sc) == ~sc.is_eof_reached /\ sc.current_char = "/" /\ peek(sc) = "/"

\* the text after the first line break from the current character on, the
\* empty text when there is none
FollowingLines(sc) ==
  LET breaks == { i \in sc.pos..Len(sc.text) : sc.text[i] = LF }
  IN  IF breaks = {} THEN <<>>
      ELSE SubSeq(sc.text, (CHOOSE i \in breaks : \A j \in breaks : i <= j) + 1,
                  Len(sc.text))

\* the token the last call returned
LastReturned == scanner.returned[Len(scanner.returned)]

\* the tokens of `// c`, `123.5e+2`, `var __x`, each line ended by a line break
LineCommentTokens ==
  << [type |-> "TOKEN_FLOAT_LITERAL", value |-> "123.5e+2"],
     [type |-> "TOKEN_EOL", value |-> NULL_STR],
     [type |-> "TOKEN_VAR", value |-> "var"],
     [type |-> "TOKEN_GLOBAL_IDENTIFIER", value |-> "__x"],
     [type |-> "TOKEN_EOL", value |-> NULL_STR],
     [type |-> "TOKEN_EOF", value |-> NULL_STR] >>

(***************************************************************************)
(* C18: a line comment is skipped together with the line break that ends   *)
(* it.  A call of get_next_token made at the `//` of a comment returns the *)
(* first token of the lines that follow the comment's line break (the end  *)
(* of input when there is none), at the column it has in its line.  For    *)
(* the text `// c`, `123.5e+2`, `var __x` the tokens are the float literal *)
(* 123.5e+2, end of line, var, the global identifier __x, end of line and  *)
(* end of input.                                                           *)
(***************************************************************************)
C18_LineComment ==
  [][/\ AtLineComment(scanner.sc) =>
          LET first == Tokens(FollowingLines(scanner.sc))[1]
          IN  /\ LastReturned'.type = first.type
              /\ LastReturned'.value = first.value
              /\ first.type # "TOKEN_EOF" => LastReturned'.column = first.column
     /\ (scanner.sc.text = LineCommentText /\ EofReturned') =>
          Lexemes(FirstRun)' = LineCommentTokens]_vars

\* the text of the example is scanned to its end
C18_Witness ==
  /\ scanner.sc.text = LineCommentText
  /\ Lexemes(scanner.returned) = LineCommentTokens

\* a text with no string literal and no block comment in it
PlainText(text) == \A i \in 1..Len(text) : text[i] \notin {"\"", "*"}

\* a plain text from its first line break on, the empty text when it has none
RECURSIVE FromLineBreak(_)
FromLineBreak(text) ==
  IF text = <<>> \/ Head(text) = LF THEN text ELSE FromLineBreak(Tail(text))

\* a plain text with the text of every line comment deleted, from its `//`
\* up to but not including its line break
RECURSIVE WithoutComments(_)
WithoutComments(text) ==
  IF text = <<>> THEN <<>>
  ELSE IF Len(text) >= 2 /\ text[1] = "/" /\ text[2] = "/"
    THEN WithoutComments(FromLineBreak(text))
  ELSE <<Head(text)>> \o WithoutComments(Tail(text))

LineBreaks(text) == Cardinality({ i \in 1..Len(text) : text[i] = LF })

EolTokens(tokens) == Cardinality({ i \in 1..Len(tokens) : tokens[i].type = "TOKEN_EOL" })

(***************************************************************************)
(* C19: comments are invisible and line breaks are significant.  For a     *)
(* text without string literals and block comments, the kinds of the       *)
(* tokens returned up to the end of input are those of the text with the   *)
(* text of every line comment deleted (its line break kept), and there is  *)
(* exactly one TOKEN_EOL for every line break of the text.                 *)
(***************************************************************************)
C19_CommentsInvisible ==
  (EofReturned /\ PlainText(scanner.sc.text)) =>
    /\ Kinds(FirstRun) = Kinds(Tokens(WithoutComments(scanner.sc.text)))
    /\ EolTokens(FirstRun) = LineBreaks(scanner.sc.text)

\* the scanner is at the `/*` that begins a block comment
AtBlockComment(sc) == ~sc.is_eof_reached /\ sc.current_char = "/" /\ peek(sc) = "*"

\* the place of the `/` that closes the block comment whose text begins at
\* place i, depth comments being open there; 0 when the comment is not
\* closed in the text
RECURSIVE Closing(_, _, _)
Closing(text, i, depth) ==
  IF i > Len(text) THEN 0
  ELSE IF i < Len(text) /\ text[i] = "/" /\ text[i + 1] = "*"
    THEN Closing(text, i + 2, depth + 1)
  ELSE IF i < Len(text) /\ text[i] = "*" /\ text[i + 1] = "/"
    THEN IF depth = 1 THEN i + 1 ELSE Closing(text, i + 2, depth - 1)
  ELSE Closing(text, i + 1, depth)

\* the text after the block comment the scanner is at, the empty text when
\* the comment is not closed
AfterComment(sc) ==
  LET end == Closing(sc.text, sc.pos + 2, 1)
  IN  IF end = 0 THEN <<>> ELSE SubSeq(sc.text, end + 1, Len(sc.text))

(***************************************************************************)
(* C20: block comments nest.  A call of get_next_token made at the `/*` of *)
(* a block comment returns the first token of the text that follows the    *)
(* `*/` that closes it, every `/*` inside the comment needing a `*/` of    *)
(* its own; a comment that is not closed runs to the end of the input and  *)
(* the call returns TOKEN_EOF, not an error token.  The text               *)
(* `/* a /* b */ c */` has no token before the end of input.               *)
(***************************************************************************)
C20_NestedComments ==
  [][/\ AtBlockComment(scanner.sc) =>
          LET first == Tokens(AfterComment(scanner.sc))[1]
          IN  /\ LastReturned'.type = first.type
              /\ LastReturned'.value = first.value
              /\ Closing(scanner.sc.text, scanner.sc.pos + 2, 1) = 0 =>
                   LastReturned'.type = "TOKEN_EOF"
     /\ (scanner.sc.text = NestedCommentText /\ EofReturned') =>
          Kinds(FirstRun)' = <<"TOKEN_EOF">>]_vars

\* `/* a /* b */ c */` and a second line `x` are scanned to the end
C20_Witness ==
  /\ scanner.sc.text = NestedCommentText \o <<LF, "x">>
  /\ Lexemes(scanner.returned) =
       << [type |-> "TOKEN_EOL", value |-> NULL_STR],
          [type |-> "TOKEN_IDENTIFIER", value |-> "x"],
          [type |-> "TOKEN_EOF", value |-> NULL_STR] >>

\* the scanner is at the first of three double quotes
AtTripleQuote(sc) ==
  ~sc.is_eof_reached /\ sc.current_char = "\"" /\ peek(sc) = "\"" /\ peek2(sc) = "\""

\* the places from i on where three double quotes begin
TripleQuotesFrom(text, i) ==
  { j \in i..(Len(text) - 2) : text[j] = "\"" /\ text[j + 1] = "\"" /\ text[j + 2] = "\"" }

\* the place where the triple quote begins that closes the multiline string
\* the scanner is at, 0 when there is none
ClosingQuotes(sc) ==
  LET js == TripleQuotesFrom(sc.text, sc.pos + 3)
  IN  IF js = {} THEN 0 ELSE CHOOSE j \in js : \A k \in js : j <= k

\* the characters of a text written one after the other
RECURSIVE StringOf(_)
StringOf(chars) == IF chars = <<>> THEN "" ELSE Head(chars) \o StringOf(Tail(chars))

(***************************************************************************)
(* C21: a string opened by three double quotes and closed by the next      *)
(* three yields one TOKEN_MULTILINE_STRING_LITERAL whose payload is        *)
(* exactly the characters strictly between the two triple quotes, with no  *)
(* escape processing (`raw`, line feed, `text` for """raw<LF>text""", the  *)
(* empty payload for six quotes), and the scanner goes on at the character *)
(* right after the closing triple quote.                                   *)
(***************************************************************************)
C21_MultilineString ==
  [][(AtTripleQuote(scanner.sc) /\ ClosingQuotes(scanner.sc) # 0) =>
       LET sc    == scanner.sc
           close == ClosingQuotes(sc)
       IN  /\ LastReturned'.type = "TOKEN_MULTILINE_STRING_LITERAL"
           /\ LastReturned'.value = StringOf(SubSeq(sc.text, sc.pos + 3, close - 1))
           /\ IF close + 2 = Len(sc.text) THEN scanner'.sc.is_eof_reached
              ELSE /\ ~scanner'.sc.is_eof_reached
                   /\ scanner'.sc.pos = close + 3]_vars

\* where the token of the next call begins
TokenStart == skip_whitespace(scanner.sc)

\* the scanner is at the double quote that opens a regular string
AtRegularString(sc) ==
  ~sc.is_eof_reached /\ sc.current_char = "\"" /\ ~AtTripleQuote(sc)

\* the character an escape denotes, NUL for a character that names none of
\* the five escapes
Denoted(c) ==
  CASE c = "n" -> LF [] c = "r" -> "\r" [] c = "t" -> "\t"
    [] c = "\\" -> "\\" [] c = "\"" -> "\"" [] OTHER -> NUL

\* a regular string read from the place i of a text on: its payload so
\* far, the place where it ends and how it ends (at the closing quote, at
\* an unescaped line break, at the end of the text, or at an escape other
\* than the five)
RECURSIVE Regular(_, _, _)
Regular(text, i, payload) ==
  IF i > Len(text) THEN [payload |-> payload, at |-> i, how |-> "end"]
  ELSE IF text[i] = "\"" THEN [payload |-> payload, at |-> i, how |-> "closed"]
  ELSE IF text[i] = LF THEN [payload |-> payload, at |-> i, how |-> "line break"]
  ELSE IF text[i] = "\\"
    THEN IF i = Len(text) \/ Denoted(text[i + 1]) = NUL
           THEN [payload |-> payload, at |-> i, how |-> "other escape"]
           ELSE Regular(text, i + 2, Append(payload, Denoted(text[i + 1])))
  ELSE Regular(text, i + 1, Append(payload, text[i]))

(***************************************************************************)
(* C22: in a regular string every escape among \n, \r, \t, \\ and \"       *)
(* contributes exactly the one character it denotes to the payload, the    *)
(* closing quote is consumed, and an unescaped line break ends the token   *)
(* without being consumed: the text read so far is returned as             *)
(* TOKEN_STRING_LITERAL and the next token is TOKEN_EOL.                   *)
(***************************************************************************)
C22_RegularString ==
  [][(AtRegularString(TokenStart) /\ scanner' # scanner) =>
       LET start == TokenStart
           r     == Regular(start.text, start.pos + 1, <<>>)
           after == scanner'.sc
       IN  r.how \in {"closed", "line break"} =>
             /\ LastReturned'.type = "TOKEN_STRING_LITERAL"
             /\ LastReturned'.value = StringOf(r.payload)
             /\ r.how = "closed" =>
                  IF r.at = Len(start.text) THEN after.is_eof_reached
                  ELSE ~after.is_eof_reached /\ after.pos = r.at + 1
             /\ r.how = "line break" =>
                  /\ ~after.is_eof_reached /\ after.pos = r.at
                  /\ after.current_char = LF
                  /\ scanner_get_next_token(after).token.type = "TOKEN_EOL"]_vars

\* the text "\n<LF> was scanned: a string whose payload is the line feed of
\* the escape, then the TOKEN_EOL of the line break that ended it
C22_Witness ==
  /\ scanner # NULL
  /\ scanner.sc.text = <<"\"", "\\", "n", LF>>
  /\ Len(scanner.returned) = 2
  /\ scanner.returned[1].type = "TOKEN_STRING_LITERAL"
  /\ scanner.returned[1].value = LF
  /\ scanner.returned[2].type = "TOKEN_EOL"

\* the scanner is at a character that begins a lexeme [A-Za-z_][A-Za-z0-9_]*
AtIdentifier(sc) ==
  ~sc.is_eof_reached /\ (isalpha(sc.current_char) \/ sc.current_char = "_")

\* the longest run of letters, digits and underscores of a text from the
\* place i on
RECURSIVE LexemeAt(_, _)
LexemeAt(text, i) ==
  IF i > Len(text) \/ text[i] \notin IdentifierChars THEN <<>>
  ELSE <<text[i]>> \o LexemeAt(text, i + 1)

\* the number of underscores a lexeme begins with
RECURSIVE LeadingUnderscores(_)
LeadingUnderscores(lexeme) ==
  IF lexeme = <<>> \/ Head(lexeme) # "_" THEN 0
  ELSE 1 + LeadingUnderscores(Tail(lexeme))

\* the tag of a lexeme that is no global identifier: its keyword token if it
\* is one of the 15 entries of the keyword table, TOKEN_IDENTIFIER otherwise
WordTag(str) ==
  IF \E i \in 1..15 : keywords[i][1] = str
    THEN keywords[CHOOSE i \in 1..15 : keywords[i][1] = str][2]
    ELSE "TOKEN_IDENTIFIER"

\* the token returned for the lexeme at the start of the next token is
\* tagged as global exactly if `global` says so, and as a keyword or an
\* identifier otherwise
Tagged(global) ==
  LET start  == TokenStart
      lexeme == LexemeAt(start.text, start.pos)
  IN  /\ LastReturned'.value = StringOf(lexeme)
      /\ LastReturned'.type =
           IF global THEN "TOKEN_GLOBAL_IDENTIFIER" ELSE WordTag(StringOf(lexeme))

\* the lexeme at the start of the next token
NextLexeme == LexemeAt(TokenStart.text, TokenStart.pos)

(***************************************************************************)
(* C23 as stated: a lexeme [A-Za-z_][A-Za-z0-9_]* is tagged                *)
(* TOKEN_GLOBAL_IDENTIFIER iff it begins with exactly two underscores;     *)
(* any other lexeme is tagged with its keyword token if it is one of the   *)
(* 15 keywords and TOKEN_IDENTIFIER otherwise.                             *)
(***************************************************************************)
C23_ExactlyTwoUnderscores ==
  [][(AtIdentifier(TokenStart) /\ scanner' # scanner) =>
       Tagged(LeadingUnderscores(NextLexeme) = 2)]_vars

(***************************************************************************)
(* C23, amended: a lexeme [A-Za-z_][A-Za-z0-9_]* is tagged                 *)
(* TOKEN_GLOBAL_IDENTIFIER iff it begins with two underscores, whatever    *)
(* follows them (a third underscore included); any other lexeme is tagged  *)
(* with its keyword token if it is one of the 15 keywords and              *)
(* TOKEN_IDENTIFIER otherwise.                                             *)
(***************************************************************************)
C23_Identifiers ==
  [][(AtIdentifier(TokenStart) /\ scanner' # scanner) =>
       Tagged(LeadingUnderscores(NextLexeme) >= 2)]_vars

\* the lexeme ___i was scanned as a global identifier
C23_Witness ==
  /\ scanner # NULL
  /\ Len(scanner.returned) = 1
  /\ scanner.sc.text = <<"_", "_", "_", "i">>
  /\ LastReturned.type = "TOKEN_GLOBAL_IDENTIFIER"
  /\ LastReturned.value = "___i"

\* the characters a token rule begins with, whatever follows them
TokenStarters ==
  LowerCase \cup UpperCase \cup Digits \cup
  {"_", "\"", LF, "+", "-", "*", "/", "=", "<", ">", "!", "(", ")", "{", "}",
   ",", ".", ":", "?"}

\* the character after the current one, NUL at the end of the text
Following(sc) == IF sc.pos < Len(sc.text) THEN sc.text[sc.pos + 1] ELSE NUL

\* the scanner is at a character that starts no token rule: none of the
\* starters, and an & or a | that is not doubled
AtUnknownCharacter(sc) ==
  /\ ~sc.is_eof_reached
  /\ sc.current_char \notin TokenStarters
  /\ sc.current_char \in {"&", "|"} => Following(sc) # sc.current_char

(***************************************************************************)
(* C24: a character that starts no token rule (a lone & or a lone |        *)
(* included) yields a TOKEN_ERROR whose payload is exactly that one        *)
(* character, and the scanner advances past it: the next call returns the  *)
(* token that starts at the following character.                           *)
(***************************************************************************)
C24_UnknownCharacter ==
  [][(AtUnknownCharacter(TokenStart) /\ scanner' # scanner) =>
       LET start == TokenStart
           after == scanner'.sc
       IN  /\ LastReturned'.type = "TOKEN_ERROR"
           /\ LastReturned'.value = start.current_char
           /\ IF start.pos = Len(start.text) THEN after.is_eof_reached
              ELSE /\ ~after.is_eof_reached
                   /\ after.pos = start.pos + 1
                   /\ after.current_char = start.text[start.pos + 1]]_vars

\* the text &a was scanned: the error token of the lone &, then the
\* identifier that starts at the following character
C24_Witness ==
  /\ scanner # NULL
  /\ scanner.sc.text = <<"&", "a">>
  /\ Len(scanner.returned) = 2
  /\ scanner.returned[1].type = "TOKEN_ERROR"
  /\ scanner.returned[1].value = "&"
  /\ scanner.returned[2].type = "TOKEN_IDENTIFIER"
  /\ scanner.returned[2].value = "a"

(***************************************************************************)
(* C25: when the first failure of a run is an unrecognized character (the  *)
(* error latch is set while the current token is the scanner's error       *)
(* token), the latched error code is the lexical-error code 1, and so is   *)
(* the exit status of the run.                                             *)
(***************************************************************************)
C25_LexicalError ==
  [][(~had_error /\ had_error' /\ current_token.type = "TOKEN_ERROR") =>
       /\ error_code' = LEXICAL_ERROR
       /\ status' = "exited" => result' = LEXICAL_ERROR]_vars

(***************************************************************************)
(* C26: if a memory allocation fails inside symtable_insert (the node or   *)
(* the copy of the key, at any depth of the tree), symtable_insert returns *)
(* false and the tree is left unchanged; it never returns true without the *)
(* key being present afterwards.                                           *)
(***************************************************************************)
C26_AllocationFailure ==
  [][(tab_call'.op = "insert without memory" /\ tab_call' # tab_call
        /\ ~symtable_find(tab, tab_call'.key).found) =>
       /\ tab_ret' = FALSE
       /\ tab' = tab
       /\ tab_ret' => symtable_find(tab', tab_call'.key).found]_vars

\* parse_assignment is about to copy the payload of the current token
\* (strdup at line 610)
ReadingTarget ==
  /\ status = "running" /\ stack # <<>>
  /\ TopFrame.fn = "parse_assignment" /\ TopFrame.pc = 605
  /\ current_token.type \in {"TOKEN_IDENTIFIER", "TOKEN_GLOBAL_IDENTIFIER"}

(***************************************************************************)
(* C27: every token payload is released exactly once, when the parser      *)
(* replaces the current token by the next one, and no payload is read or   *)
(* released after it has been released: no block is freed twice (the heap  *)
(* is never damaged and the allocator never aborts the run), and the       *)
(* payload parse_assignment reads after the lookahead of parse_statement   *)
(* is a live block.                                                        *)
(***************************************************************************)
C27_PayloadReleasedOnce ==
  /\ ~corrupt
  /\ status # "aborted"
  /\ ReadingTarget => ~Dangling([heap |-> heap], current_token.id)

\* a step of the compiler on the statement `__g = Ifj.write(1)`, the first
\* statement of main, with no error latched before
BuiltinCallStep ==
  /\ gen.last = BuiltinCallLine /\ gen.stmts = 1
  /\ ~had_error
  /\ gen' = gen /\ closed' = closed

(***************************************************************************)
(* C28: a call on the built-in namespace, the assignment                   *)
(* `__g = Ifj.write(1)`, is recognised by its name prefix: no error is     *)
(* latched for it, no CALL instruction is written for it, and when the     *)
(* assignment ends the call was written in the built-in form.              *)
(***************************************************************************)
C28_BuiltinCall ==
  [][BuiltinCallStep =>
       /\ ~had_error'
       /\ NewLines \cap { "CALL $" \o n : n \in {"write", "Ifj.write", "Ifj"} } = {}
       /\ (/\ stack # <<>> /\ TopFrame.fn = "parse_assignment"
           /\ TopFrame.pc \in {655, 658, 665} /\ status' = "running") =>
            "# Call to built-in function Ifj.write" \in Range(out')]_vars

\* the step calls parse_statement or parse_function: a statement or the
\* declaration of a callable is started
Started ==
  /\ Len(stack') = Len(stack) + 1
  /\ TopFrame'.fn \in {"parse_statement", "parse_function"}

\* the blocks the parser is in, one inside the other
OpenBlocks == { i \in 1..Len(stack) : stack[i].fn = "parse_block" }

(***************************************************************************)
(* C29: once the error latch is set, no further statement and no further   *)
(* declaration of a callable is started for the rest of the run: no step   *)
(* calls parse_statement or parse_function while had_error holds, at any   *)
(* depth of nested blocks, and a started statement or declaration never    *)
(* stands at its first line with the latch set.                            *)
(***************************************************************************)
C29_NothingStartedAfterError ==
  /\ [][Started => ~had_error /\ ~had_error']_vars
  /\ []((/\ status = "running" /\ stack # <<>>
         /\ \/ TopFrame.fn = "parse_statement" /\ TopFrame.pc = 497
            \/ TopFrame.fn = "parse_function" /\ TopFrame.pc = 313)
          => ~had_error)

\* an error was latched by a statement of a nested block, and the loop of
\* that block is reached again with a token that is no closing brace
C29_Witness ==
  /\ status = "running" /\ stack # <<>>
  /\ had_error
  /\ TopFrame.fn = "parse_block" /\ TopFrame.pc = 478
  /\ Cardinality(OpenBlocks) >= 2
  /\ current_token.type # "TOKEN_RIGHT_BRACE"

\* the way from the root of a tree to the node of a key that is in it: the
\* links taken, in order
RECURSIVE PathTo(_, _)
PathTo(tree, key) ==
  IF tree = NULL \/ tree.key = key THEN <<>>
  ELSE IF strcmp(key, tree.key) < 0 THEN <<"left">> \o PathTo(tree.left, key)
  ELSE <<"right">> \o PathTo(tree.right, key)

\* the way from the root of a tree that is not empty to its rightmost node
RECURSIVE RightmostPath(_)
RightmostPath(tree) ==
  IF tree.right = NULL THEN <<>> ELSE <<"right">> \o RightmostPath(tree.right)

\* the subtree at the end of a way
RECURSIVE Subtree(_, _)
Subtree(tree, path) ==
  IF path = <<>> THEN tree ELSE Subtree(tree[Head(path)], Tail(path))

\* the tree with the subtree at the end of a way replaced
RECURSIVE Graft(_, _, _)
Graft(tree, path, sub) ==
  IF path = <<>> THEN sub
  ELSE [tree EXCEPT ![Head(path)] = Graft(tree[Head(path)], Tail(path), sub)]

\* the height is recomputed and the balance restored at every position of a
\* way, from its end back to the root
RECURSIVE RebalancedAlong(_, _)
RebalancedAlong(tree, path) ==
  LET t == Graft(tree, path, Rebalanced(Subtree(tree, path)))
  IN  IF path = <<>> THEN t
      ELSE RebalancedAlong(t, SubSeq(path, 1, Len(path) - 1))

\* the key is in the tree, in a node with two children
HasTwoChildren(tree, key) ==
  /\ bst_find(tree, key).found
  /\ Subtree(tree, PathTo(tree, key)).left # NULL
  /\ Subtree(tree, PathTo(tree, key)).right # NULL

\* the way to the in-order predecessor of a key whose node has two children
PredecessorPath(tree, key) ==
  LET at == PathTo(tree, key)
  IN  at \o <<"left">> \o RightmostPath(Subtree(tree, at).left)

\* the tree after the node of the key took the key and the record of its
\* in-order predecessor, the predecessor's old node was replaced by its left
\* child, and every position from there back to the root was rebalanced
PredecessorMovedUp(tree, key) ==
  LET at      == PathTo(tree, key)
      from    == PredecessorPath(tree, key)
      pred    == Subtree(tree, from)
      spliced == Graft(tree, from, pred.left)
      node    == Subtree(spliced, at)
      moved   == Graft(spliced, at, [node EXCEPT !.key = pred.key, !.data = pred.data])
  IN  RebalancedAlong(moved, from)

(***************************************************************************)
(* C30: deleting a key whose node has two children leaves, at that node's  *)
(* position, the key and the record of its in-order predecessor (the       *)
(* rightmost node of its left subtree), removes the predecessor's old node *)
(* by putting its left child in its place, and recomputes the height of    *)
(* and rebalances every node on the way from the predecessor's old         *)
(* position back to the root; the call returns true.                       *)
(***************************************************************************)
C30_DeleteTwoChildren ==
  [][(tab_call'.op = "delete" /\ HasTwoChildren(tab.root, tab_call'.key)) =>
       /\ tab_ret'
       /\ tab'.root = PredecessorMovedUp(tab.root, tab_call'.key)
       /\ symtable_find(tab', Subtree(tab.root, PredecessorPath(tab.root, tab_call'.key)).key)
            = [found |-> TRUE,
               data  |-> Subtree(tab.root, PredecessorPath(tab.root, tab_call'.key)).data]
       /\ ~symtable_find(tab', tab_call'.key).found]_vars

\* the third of six keys was deleted and the second key is at the root now:
\* the deleted key was at the root with both subtrees (in a tree of the six
\* keys whose root is not the third key, the third key is a leaf and its
\* deletion leaves the fourth key at the root)
C30_Witness ==
  /\ tab_call.op = "delete" /\ tab_call.key = KeyOrder[4] /\ tab_ret
  /\ tab # NULL /\ tab.root # NULL
  /\ tab.root.key = KeyOrder[3]
  /\ \A k \in TableKeys \ {KeyOrder[4]} : symtable_find(tab, k).found

\* the label label_<n>
LabelName(n) == "label_" \o ToString(n)

JumpIfFalse(label) == "JUMPIFEQ " \o label \o " LF@cond bool@false"

\* the places of a line in the output after the step
PlacesAfter(line) == { i \in 1..Len(out') : out'[i] = line }

\* the step of the compiler that begins an if or a while statement
ControlBegins(fn) ==
  /\ AboutToStep /\ gen' = gen /\ closed' = closed /\ status' = "running"
  /\ TopFrame.fn = fn /\ TopFrame.pc = (IF fn = "parse_if_statement" THEN 675 ELSE 737)

\* the step of the compiler that ends an if or a while statement
ControlEnds(fn) ==
  /\ AboutToStep /\ gen' = gen /\ closed' = closed /\ status' = "running"
  /\ TopFrame.fn = fn /\ TopFrame.pc = (IF fn = "parse_if_statement" THEN 726 ELSE 773)

\* the labels handed out so far
LabelsTaken == { LabelName(n) : n \in 0..(label_counter - 1) }

(***************************************************************************)
(* C31: each if statement takes two fresh label ordinals and writes, in    *)
(* this order, the code of the condition, POPS and JUMPIFEQ to the else    *)
(* label, the then block, JUMP to the end label, LABEL else, the else      *)
(* block, LABEL end; each while statement writes LABEL start, the          *)
(* condition, POPS and JUMPIFEQ to the end label, the body, JUMP start,    *)
(* LABEL end.  label_counter never decreases, and in a run without error   *)
(* every target of a JUMP or JUMPIFEQ is declared by exactly one LABEL,    *)
(* nested statements included.                                             *)
(***************************************************************************)
C31_ControlFlowLabels ==
  /\ [][label_counter' >= label_counter]_vars
  /\ [][\A fn \in {"parse_if_statement", "parse_while_statement"} :
          ControlBegins(fn) =>
            /\ label_counter' = label_counter + 2
            /\ TopFrame'.fn = fn
            /\ TopFrame'.l1 = LabelName(label_counter)
            /\ TopFrame'.l2 = LabelName(label_counter + 1)
            /\ TopFrame'.l1 \notin LabelsTaken /\ TopFrame'.l2 \notin LabelsTaken
            /\ \A l \in {TopFrame'.l1, TopFrame'.l2} :
                 /\ PlacesAfter("JUMP " \o l) = {}
                 /\ PlacesAfter(JumpIfFalse(l)) = {}
                 /\ fn = "parse_if_statement" => PlacesAfter("LABEL " \o l) = {}]_vars
  /\ [][ControlEnds("parse_if_statement") =>
          LET n == Len(out')
          IN  /\ out'[n] = "LABEL " \o TopFrame.l2
              /\ \E i, j \in 1..n :
                   /\ i + 1 < j /\ j + 1 < n
                   /\ out'[i] = "POPS LF@cond"
                   /\ out'[i + 1] = JumpIfFalse(TopFrame.l1)
                   /\ out'[j] = "JUMP " \o TopFrame.l2
                   /\ out'[j + 1] = "LABEL " \o TopFrame.l1
                   /\ PlacesAfter(JumpIfFalse(TopFrame.l1)) = {i + 1}
                   /\ PlacesAfter("JUMP " \o TopFrame.l2) = {j}
                   /\ PlacesAfter("LABEL " \o TopFrame.l1) = {j + 1}
                   /\ PlacesAfter("LABEL " \o TopFrame.l2) = {n}]_vars
  /\ [][ControlEnds("parse_while_statement") =>
          LET n == Len(out')
          IN  /\ out'[n] = "LABEL " \o TopFrame.l2
              /\ out'[n - 1] = "JUMP " \o TopFrame.l1
              /\ \E i, k \in 1..n :
                   /\ i < k /\ k + 1 < n - 1
                   /\ out'[i] = "LABEL " \o TopFrame.l1
                   /\ out'[k] = "POPS LF@cond"
                   /\ out'[k + 1] = JumpIfFalse(TopFrame.l2)
                   /\ PlacesAfter("LABEL " \o TopFrame.l1) = {i}
                   /\ PlacesAfter(JumpIfFalse(TopFrame.l2)) = {k + 1}
                   /\ PlacesAfter("JUMP " \o TopFrame.l1) = {n - 1}
                   /\ PlacesAfter("LABEL " \o TopFrame.l2) = {n}]_vars
  /\ []((status = "exited" /\ ~had_error) =>
          \A l \in LabelsTaken :
            (\E i \in 1..Len(out) : out[i] \in {"JUMP " \o l, JumpIfFalse(l)}) =>
              Cardinality({ i \in 1..Len(out) : out[i] = "LABEL " \o l }) = 1)

\* a run without error that compiled one if or while statement inside
\* another: the end label of the inner statement is declared before the end
\* label of the outer one
C31_Witness ==
  /\ status = "exited" /\ ~had_error
  /\ \E j, k \in 1..Len(out) :
       j < k /\ out[j] = "LABEL label_3" /\ out[k] = "LABEL label_1"

(***************************************************************************)
(* A call on the target stack machine: the code the compiler writes for    *)
(* the call f(a1, ..., an) and for the prolog of f, run by the IFJcode     *)
(* instructions it consists of.                                            *)
(***************************************************************************)
\* largest number of arguments of the call
MaxArity == 3

ArgumentValues == 0..MaxOperand

ArgumentLists == UNION { [1..n -> ArgumentValues] : n \in 0..MaxArity }

ParamSlot(i) == "LF@param" \o ToString(i)

ParamSlots == { ParamSlot(i) : i \in 0..MaxArity }

\* the tokens of the arguments a1, ..., an between the parentheses
RECURSIVE ArgumentTokens(_)
ArgumentTokens(args) ==
  IF args = <<>> THEN <<>>
  ELSE <<IntLit(ToString(Head(args)))>>
       \o (IF Len(args) > 1 THEN <<Comma>> ELSE <<>>)
       \o ArgumentTokens(Tail(args))

\* one step of the function the parser is in, for the rules the arguments
\* of a call go through
ExpressionStep(s) ==
  LET fn == Top(s).fn
  IN  CASE fn = "parse_function_call"     -> parse_function_call(s)
        [] fn = "parse_expression"        -> parse_expression(s)
        [] fn = "parse_is_expression"     -> parse_is_expression(s)
        [] fn = "parse_relation"          -> parse_relation(s)
        [] fn = "parse_simple_expression" -> parse_simple_expression(s)
        [] fn = "parse_term"              -> parse_term(s)
        [] fn = "parse_factor"            -> parse_factor(s)

\* the parser runs until the function it was started in returns
RECURSIVE RunToReturn(_)
RunToReturn(s) ==
  IF s.stack = <<>> \/ ~Running(s) THEN s ELSE RunToReturn(ExpressionStep(s))

\* the parser at the header of f with n parameters: parse_function has
\* inserted the key and writes the prolog
AtHeader(n) ==
  [S([read |-> "kept", free |-> "ignore"]) EXCEPT
     !.status = "running", !.out = <<>>,
     !.global_table = symtable_insert(symtable_init, MakeKey("f", n),
                        symdata_create_func("IFJ_SYMBOL_FUNC", n), FALSE).table]

\* the lines generate_function_prolog writes for f with n parameters
PrologCode(n) == generate_function_prolog(AtHeader(n), "f", n).out

\* the lines parse_function_call writes for f(a1, ..., an), entered as
\* parse_factor and parse_assignment enter it: the name has been read and
\* the current token is the one after it
CallCode(args) ==
  RunToReturn(
    [AtHeader(Len(args)) EXCEPT
       !.cur = [type |-> "TOKEN_LEFT_PAREN", value |-> NULL_STR, id |-> 0],
       !.input = ArgumentTokens(args) \o <<RParen, EOL>>,
       !.stack = <<[Frame("parse_function_call", 808) EXCEPT !.name = "f"]>>]).out

\* a frame of the machine: no variable is defined in it
EmptyFrame == [v \in ParamSlots |-> "undefined"]

CallStart(args) ==
  [args |-> args, code |-> <<>>, pc |-> 0, stack |-> <<>>, tf |-> NULL,
   frames |-> <<>>, calls |-> <<>>, fault |-> FALSE]

CallInit ==
  /\ tab = symtable_init
  /\ ref = [k \in TableKeys |-> NULL]
  /\ tab_call = [op |-> "init", key |-> NULL_STR, data |-> NULL]
  /\ tab_ret = TRUE
  /\ tab_heap = [malloc |-> Blocks("table", 1), free |-> NoBlocks]
  /\ ParserIdle
  /\ scanner = NULL
  /\ machine \in { CallStart(args) : args \in ArgumentLists }

\* the local frame: the top of the frame stack
LocalFrame == machine.frames[Len(machine.frames)]

\* the compiler has written the call, and the prolog of f behind the end of
\* the caller's code
CallLoad ==
  /\ machine.pc = 0
  /\ machine' = [machine EXCEPT
       !.code = CallCode(machine.args) \o <<"EXIT int@0">>
                \o PrologCode(Len(machine.args)),
       !.pc = 1]
  /\ UNCHANGED <<tvars, pvars, gvars, svars>>

\* PUSHS int@n
CallPUSHS ==
  /\ \E n \in ArgumentValues :
       /\ Instruction = PushInt(n)
       /\ machine' = [machine EXCEPT !.stack = Append(@, IntValue(n)), !.pc = @ + 1]
  /\ UNCHANGED <<tvars, pvars, gvars, svars>>

\* CALL <label>: the position after the call is saved and the machine goes
\* on at the label
CallCALL ==
  /\ Instruction = "CALL $f"
  /\ LET at == { i \in 1..Len(machine.code) : machine.code[i] = "LABEL $f" }
     IN  IF Cardinality(at) # 1 THEN Fault
         ELSE machine' = [machine EXCEPT !.calls = Append(@, machine.pc + 1),
                                         !.pc = CHOOSE i \in at : TRUE]
  /\ UNCHANGED <<tvars, pvars, gvars, svars>>

\* LABEL <label>
CallLABEL ==
  /\ Instruction = "LABEL $f"
  /\ machine' = [machine EXCEPT !.pc = @ + 1]
  /\ UNCHANGED <<tvars, pvars, gvars, svars>>

\* CREATEFRAME: a new temporary frame
CallCREATEFRAME ==
  /\ Instruction = "CREATEFRAME"
  /\ machine' = [machine EXCEPT !.tf = EmptyFrame, !.pc = @ + 1]
  /\ UNCHANGED <<tvars, pvars, gvars, svars>>

\* PUSHFRAME: the temporary frame becomes the local frame
CallPUSHFRAME ==
  /\ Instruction = "PUSHFRAME"
  /\ IF machine.tf = NULL THEN Fault
     ELSE machine' = [machine EXCEPT !.frames = Append(@, machine.tf),
                                     !.tf = NULL, !.pc = @ + 1]
  /\ UNCHANGED <<tvars, pvars, gvars, svars>>

\* DEFVAR LF@v: v must not be defined in the local frame
CallDEFVAR ==
  /\ \E v \in ParamSlots :
       /\ Instruction = "DEFVAR " \o v
       /\ IF machine.frames = <<>> THEN Fault
          ELSE IF LocalFrame[v] # "undefined" THEN Fault
          ELSE machine' = [machine EXCEPT !.frames[Len(machine.frames)][v] = NULL,
                                          !.pc = @ + 1]
  /\ UNCHANGED <<tvars, pvars, gvars, svars>>

\* POPS LF@v: v must be defined and the data stack must not be empty
CallPOPS ==
  /\ \E v \in ParamSlots :
       /\ Instruction = "POPS " \o v
       /\ IF machine.frames = <<>> \/ machine.stack = <<>> THEN Fault
          ELSE IF LocalFrame[v] = "undefined" THEN Fault
          ELSE machine' = [machine EXCEPT
                 !.frames[Len(machine.frames)][v] = StackTop(1),
                 !.stack = Pop(1), !.pc = @ + 1]
  /\ UNCHANGED <<tvars, pvars, gvars, svars>>

CallNext ==
  \/ CallLoad
  \/ CallPUSHS
  \/ CallCALL
  \/ CallLABEL
  \/ CallCREATEFRAME
  \/ CallPUSHFRAME
  \/ CallDEFVAR
  \/ CallPOPS

CallSpec == CallInit /\ [][CallNext]_vars

\* the machine is inside f and the prolog of f has run to its end
PrologDone ==
  /\ machine.pc > Len(machine.code) /\ machine.pc > 0
  /\ machine.calls # <<>>

\* C32: the code of the arguments of f(a1, ..., an) is written left to
\* right, all of it before CALL $f; the machine runs the call and the prolog
\* of f without a fault, and at the end of the prolog the value of the i-th
\* argument (counted from 0) is in LF@param<i> of the frame of f, for every
\* number n of arguments, and nothing of the call is left on the data stack
C32_ArgumentsReachParams ==
  LET args == machine.args
      n    == Len(args)
  IN  /\ ~machine.fault
      /\ machine.pc > 0 =>
           /\ \A i \in 1..n : machine.code[i] = PushInt(args[i])
           /\ machine.code[n + 1] = "CALL $f"
      /\ PrologDone =>
           /\ Len(machine.frames) = 1
           /\ \A i \in 0..(n - 1) : LocalFrame[ParamSlot(i)] = IntValue(args[i + 1])
           /\ \A v \in ParamSlots \ { ParamSlot(i) : i \in 0..(n - 1) } :
                LocalFrame[v] = "undefined"
           /\ machine.stack = <<>>

\* the prolog of a call with MaxArity arguments, the first and the last of
\* them different, has run to its end
C32_Witness ==
  /\ PrologDone
  /\ Len(machine.args) = MaxArity
  /\ machine.args[1] # machine.args[MaxArity]
  /\ LocalFrame[ParamSlot(0)] = IntValue(machine.args[1])

\* the names of local variables the source texts use
VarNames == {"x", "y", "v", "a"}

\* the variables of the callable being compiled that the source has
\* declared so far, told from what the compiler has done: a DEFVAR written
\* since the label of the callable, or the parameter parse_setter read
DeclaredHere ==
  { x \in VarNames : ("DEFVAR LF@" \o x) \in SinceLabel }
  \cup { stack[i].name2 : i \in { j \in 1..Len(stack) : stack[j].fn = "parse_setter" } }

\* parse_var_declaration has read `var` and stands at the name
VarDeclaring ==
  /\ AboutToStep /\ ~had_error
  /\ TopFrame.fn = "parse_var_declaration" /\ TopFrame.pc = 546
  /\ current_token.type = "TOKEN_IDENTIFIER"

(***************************************************************************)
(* C33: `var x` latches SEMANTIC_REDEFINITION iff x is already in the      *)
(* local table of the callable being compiled, and x is in that table iff  *)
(* the callable declared it before at any block depth (a declaration       *)
(* inside an if or while block counts after the block has ended) or x is   *)
(* the parameter of the setter being compiled; a redeclaration writes      *)
(* nothing and leaves the table alone; otherwise the step latches nothing, *)
(* inserts x into the local table and writes DEFVAR LF@x and               *)
(* MOVE LF@x nil@nil.                                                      *)
(***************************************************************************)
C33_VarDeclaration ==
  [][(VarDeclaring /\ CompletedStep) =>
       LET x == current_token.value
       IN  /\ symtable_find(local_table, x).found <=> x \in DeclaredHere
           /\ IF symtable_find(local_table, x).found
                THEN /\ had_error' /\ error_code' = SEMANTIC_REDEFINITION
                     /\ out' = out
                     /\ local_table' = local_table
                ELSE /\ ~had_error' /\ error_code' = SUCCESS
                     /\ symtable_find(local_table', x).found
                     /\ \A y \in VarNames \ {x} :
                          symtable_find(local_table', y).found
                            <=> symtable_find(local_table, y).found
                     /\ out' = out \o << "DEFVAR LF@" \o x,
                                         "MOVE LF@" \o x \o " nil@nil" >>]_vars

\* `var x` behind the end of an if statement in whose block x was declared
\* has latched the redefinition
C33_Witness ==
  /\ had_error /\ error_code = SEMANTIC_REDEFINITION
  /\ gen.last = Line(<<KwVar, Ident("x")>>) /\ gen.open = <<"fn">>
  /\ \E i, j, k \in 1..Len(out) :
       /\ i < j /\ j < k
       /\ out[i] = JumpIfFalse("label_0")
       /\ out[j] = "DEFVAR LF@x"
       /\ out[k] = "LABEL label_1"
       /\ \A m \in 1..Len(out) : out[m] = "DEFVAR LF@x" => m = j

\* parse_statement stands at the first token of a statement, which is an
\* identifier or a global identifier
IdentifierStatement ==
  /\ AboutToStep
  /\ TopFrame.fn = "parse_statement" /\ TopFrame.pc = 497
  /\ current_token.type \in {"TOKEN_IDENTIFIER", "TOKEN_GLOBAL_IDENTIFIER"}

\* parse_statement has read the token behind the identifier
AfterIdentifier ==
  /\ AboutToStep
  /\ TopFrame.fn = "parse_statement" /\ TopFrame.pc = 510

(***************************************************************************)
(* C34: a statement that starts with an identifier or a global identifier  *)
(* which `=` does not follow at once latches SEMANTIC_OTHER (10), never    *)
(* SYNTAX_ERROR, and writes no instruction: reading the token behind the   *)
(* identifier writes nothing and latches nothing, and when that token is   *)
(* not `=` the next step latches SEMANTIC_OTHER, writes nothing and ends   *)
(* the statement.                                                          *)
(***************************************************************************)
C34_BareIdentifierStatement ==
  /\ [][(IdentifierStatement /\ CompletedStep) =>
          /\ ~had_error /\ ~had_error' /\ out' = out
          /\ TopFrame'.fn = "parse_statement" /\ TopFrame'.pc = 510]_vars
  /\ [][(AfterIdentifier /\ gen' = gen /\ closed' = closed
           /\ current_token.type # "TOKEN_ASSIGN") =>
          /\ ~had_error /\ had_error' /\ error_code' = SEMANTIC_OTHER
          /\ error_code' # SYNTAX_ERROR
          /\ out' = out
          /\ Len(stack') = Len(stack) - 1]_vars

\* the bare call f() of a declared f has latched SEMANTIC_OTHER
C34_Witness ==
  /\ had_error /\ error_code = SEMANTIC_OTHER
  /\ gen.last = Line(<<Ident("f"), LParen, RParen>>)
  /\ "f_0" \in gen.keys

\* every block of x is among the blocks of y
Within(x, y) == \A b \in BlockKinds : x[b] <= y[b]

(***************************************************************************)
(* C35: symtable_free frees every block that was allocated for the table   *)
(* and its records (the table, every node, every copy of a key, every      *)
(* record struct, every payload and parameter list), and an insert with a  *)
(* key that is in the table frees every block of the record it replaces,   *)
(* the record struct included.                                             *)
(***************************************************************************)
C35_AllocationsReleased ==
  /\ [][(tab_call'.op = "free" /\ tab_call' # tab_call) =>
          tab_heap'.free = TableBlocks(tab)]_vars
  /\ [][(tab_call'.op = "insert" /\ symtable_find(tab, tab_call'.key).found) =>
          Within(RecordBlocks(symtable_find(tab, tab_call'.key).data),
                 tab_heap'.free)]_vars

\* the calls so far that returned a token other than TOKEN_EOF
TokenCalls == Cardinality({ i \in 1..Len(scanner.returned) :
                              scanner.returned[i].type # "TOKEN_EOF" })

\* the characters of the text the scanner has gone past; the current
\* character is the one it looks at
Consumed(sc) == IF sc.is_eof_reached THEN Len(sc.text) ELSE sc.pos - 1

(***************************************************************************)
(* C36: every call of get_next_token that begins before the end of the     *)
(* input moves the scanner forward by at least one character, whatever     *)
(* token it returns, and a call that begins at the end of the input        *)
(* returns TOKEN_EOF; so the calls that returned a token other than        *)
(* TOKEN_EOF are never more than the characters gone past, at most n for a *)
(* text of n characters, and of any n + 1 calls one has returned           *)
(* TOKEN_EOF: the token stream reaches the end of file after finitely many *)
(* calls.                                                                  *)
(***************************************************************************)
C36_ScannerProgress ==
  /\ [][(scanner' # scanner /\ ~scanner.sc.is_eof_reached) =>
          Consumed(scanner'.sc) > Consumed(scanner.sc)]_vars
  /\ [][(scanner' # scanner /\ scanner.sc.is_eof_reached) =>
          scanner'.returned[Len(scanner'.returned)].type = "TOKEN_EOF"]_vars
  /\ [](/\ TokenCalls <= Consumed(scanner.sc)
        /\ Consumed(scanner.sc) <= Len(scanner.sc.text)
        /\ Len(scanner.returned) > Len(scanner.sc.text) => EofCalls > 0)

\* a text of MaxLen characters gave MaxLen tokens and then TOKEN_EOF
C36_Witness ==
  /\ Len(scanner.sc.text) = MaxLen
  /\ TokenCalls = MaxLen
  /\ EofCalls = 1

\* the functions of the compiler, each with its action
ParserFunctions ==
  { "main", "parse_program", "parse_prolog", "parse_class",
    "parse_function_definitions", "parse_function", "parse_getter", "parse_setter",
    "parse_block", "parse_statement", "parse_var_declaration", "parse_assignment",
    "parse_if_statement", "parse_while_statement", "parse_return",
    "parse_function_call", "parse_expression", "parse_is_expression",
    "parse_relation", "parse_simple_expression", "parse_term", "parse_factor" }

(***************************************************************************)
(* C37: parse_program terminates on every finite token stream, whole, cut  *)
(* after any token, or with error tokens in it.  Whenever the scanner can  *)
(* deliver, the running compiler is in a function that has a next step;    *)
(* between two tokens it                                                   *)
(* reads, and after the last one, it takes a bounded number of steps: at   *)
(* most two for every call that was active when it read the token, and 20  *)
(* more.  A loop iteration that neither reads a token nor leaves the loop  *)
(* would repeat without end and exceed every such bound.                   *)
(***************************************************************************)
C37_Termination ==
  /\ idle.steps <= 2 * idle.depth + 20
  /\ status = "running" => stack # <<>> /\ TopFrame.fn \in ParserFunctions

\* the compiler has ended on a text that was cut inside a parenthesis of an
\* expression, and on one cut inside a parameter list
C37_Witness ==
  /\ Ended /\ scen = "cut" /\ closed
  /\ gen.last = <<KwReturn, LParen, IntLit("1"), Plus>>
  /\ idle.steps > 20

(***************************************************************************)
(* C38: the global table is filled in the order of the source.  The step   *)
(* that ends the argument list of a call f(a1..an) accepts the call, and   *)
(* writes CALL $f, exactly when the text read so far holds the header of a *)
(* callable with key f_n: a callable declared before, or the one whose     *)
(* body the call stands in.  Every other call, one of a callable that the  *)
(* text declares later included, is refused and latches                    *)
(* SEMANTIC_UNDEFINED unless an error was latched before.                  *)
(***************************************************************************)
C38_SourceOrder ==
  [][(CallEnding /\ CompletedStep) =>
       IF CallKey \in gen.keys
         THEN /\ out' = Append(out, "CALL $" \o TopFrame.name)
              /\ UNCHANGED <<had_error, error_code, diag>>
         ELSE /\ out' = out
              /\ had_error'
              /\ error_code' = IF had_error THEN error_code
                               ELSE SEMANTIC_UNDEFINED]_vars

\* inside the body of f, which is the only callable of the text so far, a
\* call of f was accepted and a call of a callable not declared yet was
\* refused after it
C38_Witness ==
  /\ gen.keys = {"f_0"}
  /\ current_function = "f"
  /\ "CALL $f" \in Range(out)
  /\ diag = << [code |-> SEMANTIC_UNDEFINED, message |-> "Function not defined"] >>
  /\ error_code = SEMANTIC_UNDEFINED

(***************************************************************************)
(* C39: the local table at the beginning of a body.  When parse_block is   *)
(* entered for the body of a setter, the local table holds the parameter   *)
(* of the setter and nothing else; when it is entered for the body of a    *)
(* function or a getter, the local table is empty.  The parameters of a    *)
(* function are therefore unknown in its body: the step that reads one as  *)
(* a factor, or takes one as the target of an assignment, reports          *)
(* SEMANTIC_UNDEFINED (latched unless an error was latched before) when no *)
(* var of that name was declared in the callable.                          *)
(***************************************************************************)
\* parse_block is about to begin the body of a callable
BodyEntry ==
  /\ status = "running" /\ Len(stack) >= 2
  /\ TopFrame.fn = "parse_block" /\ TopFrame.pc = 470
  /\ stack[Len(stack) - 1].fn \in {"parse_function", "parse_getter", "parse_setter"}

\* the compiler is in the body of a function (not of a getter or setter)
InFunctionBody ==
  \E i \in 1..Len(stack) : stack[i].fn = "parse_function" /\ stack[i].pc = 422

\* the parameter names of the function being compiled: the headers of the
\* text name the first parameter a and the second v
FunctionParams ==
  IF InFunctionBody
    THEN Range(SubSeq(<<"a", "v">>, 1, function_param_count))
    ELSE {}

\* the next step reads the local name as a factor or takes it as the
\* target of an assignment
UseOfName(name) ==
  /\ AboutToStep
  /\ current_token.type = "TOKEN_IDENTIFIER" /\ current_token.value = name
  /\ \/ TopFrame.fn = "parse_factor" /\ TopFrame.pc = 957
     \/ TopFrame.fn = "parse_assignment" /\ TopFrame.pc = 605

C39_ParametersNotLocal ==
  /\ [](BodyEntry =>
          /\ local_table # NULL
          /\ InOrder(local_table.root) =
               IF stack[Len(stack) - 1].fn = "parse_setter"
                 THEN << stack[Len(stack) - 1].name2 >>
                 ELSE <<>>)
  /\ [][\A name \in FunctionParams :
          (/\ UseOfName(name) /\ CompletedStep
           /\ ("DEFVAR LF@" \o name) \notin SinceLabel) =>
            /\ had_error'
            /\ error_code' = IF had_error THEN error_code ELSE SEMANTIC_UNDEFINED
            /\ Len(diag') = Len(diag) + 1
            /\ diag'[Len(diag')].code = SEMANTIC_UNDEFINED
            /\ out' = out]_vars

\* in the body of f(a), where no variable was declared, the statement
\* `return a` was refused
C39_Witness ==
  /\ InFunctionBody /\ current_function = "f" /\ function_param_count = 1
  /\ gen.last = Line(<<KwReturn, Ident("a")>>)
  /\ "DEFVAR LF@a" \notin SinceLabel
  /\ diag = << [code |-> SEMANTIC_UNDEFINED, message |-> "Undefined variable"] >>
  /\ error_code = SEMANTIC_UNDEFINED

(***************************************************************************)
(* C40: in the output of a run that ends without error, every slot of the  *)
(* local frame that a POPS, PUSHS, TYPE or JUMPIFEQ inside a callable      *)
(* names was introduced by a DEFVAR of that slot written before, between   *)
(* the LABEL of the callable and the use.                                  *)
(***************************************************************************)
\* the names the generated code uses in the local frame: the variables of
\* the text, the parameter slots and the helper slots of the generator
FrameSlots ==
  VarNames \cup { "param" \o ToString(i) : i \in 0..(MaxArity - 1) }
           \cup {"cond", "temp1", "temp2", "value", "type"}

\* the lines of the output that have LF@name as an operand
SlotUses(name) ==
  {"POPS LF@" \o name, "PUSHS LF@" \o name}
    \cup (IF name \in {"type", "value"} THEN {"TYPE LF@type LF@value"} ELSE {})
    \cup (IF name = "cond"
            THEN { JumpIfFalse(LabelName(n)) : n \in 0..Len(out) }
            ELSE {})

\* the place of the LABEL of the callable that line i of the output belongs
\* to, 0 before the first callable
CallableStart(i) ==
  LET labels == { j \in 1..i : out[j] \in FunctionLabels }
  IN  IF labels = {} THEN 0 ELSE CHOOSE j \in labels : \A k \in labels : k <= j

C40_SlotsIntroduced ==
  (status = "exited" /\ result = SUCCESS /\ ~had_error) =>
    \A i \in 1..Len(out) : \A name \in FrameSlots :
      (out[i] \in SlotUses(name) /\ CallableStart(i) > 0) =>
        \E j \in (CallableStart(i) + 1)..(i - 1) : out[j] = "DEFVAR LF@" \o name

=============================================================================
